---- MODULE Spec2Model ----
(***************************************************************************)
(* Model of pibao (pet health diary): the daily nutrition / hydration      *)
(* aggregation of src/services/storage.ts and the state around it.         *)
(*                                                                         *)
(* TypeScript's `number` is IEEE-754 binary64.  The aggregation multiplies *)
(* and adds such numbers, so the model carries them as binary floating     *)
(* point values with a Prec-bit significand and rounds every operation to  *)
(* nearest, ties to even, as the language does.  Exponent range limits     *)
(* (overflow to Infinity, subnormals) are never approached by the bounded  *)
(* inputs and are not modelled; NaN does not arise from finite operands of *)
(* + - * and of a division by a non-zero number.                           *)
(***************************************************************************)
EXTENDS Integers, Sequences, FiniteSets, TLC

(***************************************************************************)
(* Natural numbers of arbitrary size: little-endian sequences of limbs in  *)
(* 0..Base-1 without a leading (high) zero limb; << >> is zero.            *)
(***************************************************************************)
LimbBits == 14
Base == 2^LimbBits
\* significand precision of the binary64 `number` type
Prec == 53

RECURSIVE BigTrim(_)
BigTrim(x) ==
    IF x = <<>> THEN x
    ELSE IF x[Len(x)] = 0 THEN BigTrim(SubSeq(x, 1, Len(x) - 1)) ELSE x

RECURSIVE BigOfNat(_)
BigOfNat(n) == IF n = 0 THEN <<>> ELSE <<n % Base>> \o BigOfNat(n \div Base)

Limb(x, i) == IF i <= Len(x) THEN x[i] ELSE 0

RECURSIVE BigCmpAt(_, _, _)
BigCmpAt(a, b, i) ==
    IF i = 0 THEN 0
    ELSE IF a[i] > b[i] THEN 1
    ELSE IF a[i] < b[i] THEN -1
    ELSE BigCmpAt(a, b, i - 1)

\* -1, 0, 1 as a < b, a = b, a > b
BigCmp(a, b) ==
    IF Len(a) > Len(b) THEN 1
    ELSE IF Len(a) < Len(b) THEN -1
    ELSE BigCmpAt(a, b, Len(a))

RECURSIVE BigAddAt(_, _, _, _)
BigAddAt(a, b, i, c) ==
    IF i > Len(a) /\ i > Len(b) THEN (IF c = 0 THEN <<>> ELSE <<c>>)
    ELSE LET s == Limb(a, i) + Limb(b, i) + c
         IN  <<s % Base>> \o BigAddAt(a, b, i + 1, s \div Base)

BigAdd(a, b) == BigAddAt(a, b, 1, 0)

RECURSIVE BigSubAt(_, _, _, _)
BigSubAt(a, b, i, br) ==
    IF i > Len(a) THEN <<>>
    ELSE LET d == a[i] - Limb(b, i) - br
         IN  IF d < 0 THEN <<d + Base>> \o BigSubAt(a, b, i + 1, 1)
                      ELSE <<d>> \o BigSubAt(a, b, i + 1, 0)

\* a - b for a >= b
BigSub(a, b) == BigTrim(BigSubAt(a, b, 1, 0))

RECURSIVE BigMulSmallAt(_, _, _, _)
BigMulSmallAt(a, k, i, c) ==
    IF i > Len(a) THEN (IF c = 0 THEN <<>> ELSE <<c>>)
    ELSE LET p == a[i] * k + c
         IN  <<p % Base>> \o BigMulSmallAt(a, k, i + 1, p \div Base)

\* a * k for 0 <= k <= Base
BigMulSmall(a, k) == IF k = 0 \/ a = <<>> THEN <<>> ELSE BigMulSmallAt(a, k, 1, 0)

BigShiftLimbs(a, n) == IF a = <<>> THEN a ELSE [i \in 1..n |-> 0] \o a

RECURSIVE BigMulAt(_, _, _)
BigMulAt(a, b, j) ==
    IF j > Len(b) THEN <<>>
    ELSE BigAdd(BigShiftLimbs(BigMulSmall(a, b[j]), j - 1), BigMulAt(a, b, j + 1))

BigMul(a, b) == BigMulAt(a, b, 1)

RECURSIVE BigDivSmallAt(_, _, _, _)
BigDivSmallAt(a, k, i, rem) ==
    IF i = 0 THEN [q |-> <<>>, r |-> rem]
    ELSE LET cur  == rem * Base + a[i]
             rest == BigDivSmallAt(a, k, i - 1, cur % k)
         IN  [q |-> rest.q \o <<cur \div k>>, r |-> rest.r]

\* quotient q and remainder r of a by k, 0 < k < Base
BigDivSmall(a, k) ==
    LET d == BigDivSmallAt(a, k, Len(a), 0) IN [q |-> BigTrim(d.q), r |-> d.r]

RECURSIVE NatBitLen(_)
NatBitLen(n) == IF n = 0 THEN 0 ELSE 1 + NatBitLen(n \div 2)

BigBitLen(a) == IF a = <<>> THEN 0 ELSE LimbBits * (Len(a) - 1) + NatBitLen(a[Len(a)])

BigIsOdd(a) == a # <<>> /\ a[1] % 2 = 1

\* a * 2^s
BigShiftL(a, s) == BigShiftLimbs(BigMulSmall(a, 2^(s % LimbBits)), s \div LimbBits)

\* floor(a / 2^s)
BigShiftR(a, s) ==
    LET n == s \div LimbBits
    IN  IF n >= Len(a) THEN <<>>
        ELSE BigDivSmall(SubSeq(a, n + 1, Len(a)), 2^(s % LimbBits)).q

RECURSIVE NatTrailingZeros(_)
NatTrailingZeros(n) == IF n % 2 = 1 THEN 0 ELSE 1 + NatTrailingZeros(n \div 2)

RECURSIVE BigTrailingZeros(_)
\* number of trailing zero bits of a > 0
BigTrailingZeros(a) ==
    IF a[1] = 0 THEN LimbBits + BigTrailingZeros(Tail(a)) ELSE NatTrailingZeros(a[1])

(***************************************************************************)
(* A finite `number`: (-1)^s * m * 2^e with m odd (canonical form), or     *)
(* zero.  -0 and +0 are not told apart: the code only adds, subtracts,     *)
(* multiplies and compares, which do not tell them apart either.           *)
(***************************************************************************)
FZero == [s |-> 0, m |-> <<>>, e |-> 0]

FCanon(s, m, e) ==
    IF m = <<>> THEN FZero
    ELSE LET z == BigTrailingZeros(m)
         IN  [s |-> s, m |-> BigShiftR(m, z), e |-> e + z]

\* the nearest Prec-bit number to (-1)^s * n * 2^e, ties to even
FRound(s, n, e) ==
    LET len == BigBitLen(n)
    IN  IF len <= Prec THEN FCanon(s, n, e)
        ELSE LET d    == len - Prec
                 q    == BigShiftR(n, d)
                 rem  == BigSub(n, BigShiftL(q, d))
                 half == BigShiftL(<<1>>, d - 1)
                 c    == BigCmp(rem, half)
                 up   == c = 1 \/ (c = 0 /\ BigIsOdd(q))
             IN  FCanon(s, IF up THEN BigAdd(q, <<1>>) ELSE q, e + d)

FOfInt(n) == FCanon(IF n < 0 THEN 1 ELSE 0, BigOfNat(IF n < 0 THEN -n ELSE n), 0)

FNeg(a) == IF a.m = <<>> THEN a ELSE [a EXCEPT !.s = 1 - a.s]

\* a * b
FMul(a, b) ==
    IF a.m = <<>> \/ b.m = <<>> THEN FZero
    ELSE FRound((a.s + b.s) % 2, BigMul(a.m, b.m), a.e + b.e)

\* a + b
FAdd(a, b) ==
    IF a.m = <<>> THEN b
    ELSE IF b.m = <<>> THEN a
    ELSE LET e0 == IF a.e < b.e THEN a.e ELSE b.e
             x  == BigShiftL(a.m, a.e - e0)
             y  == BigShiftL(b.m, b.e - e0)
             c  == BigCmp(x, y)
         IN  IF a.s = b.s THEN FRound(a.s, BigAdd(x, y), e0)
             ELSE IF c = 0 THEN FZero
             ELSE IF c = 1 THEN FRound(a.s, BigSub(x, y), e0)
             ELSE FRound(b.s, BigSub(y, x), e0)

\* a - b
FSub(a, b) == FAdd(a, FNeg(b))

\* a / k for an integer 0 < k < Base: the quotient to Prec + 3 bits or more,
\* with a sticky bit for the remainder, then rounded
FDivInt(a, k) ==
    IF a.m = <<>> THEN FZero
    ELSE LET sh == Prec + 3 + LimbBits
             d  == BigDivSmall(BigShiftL(a.m, sh), k)
             n  == BigAdd(BigMulSmall(d.q, 2), IF d.r = 0 THEN <<>> ELSE <<1>>)
         IN  FRound(a.s, n, a.e - sh - 1)

\* a < b, a <= b
FLt(a, b) == FSub(a, b).s = 1
FLe(a, b) == ~FLt(b, a)

\* mutant: no clamp at zero
FMax0_NoClamp(a) == a

\* Math.max(0, a)
FMax0(a) == IF a.s = 1 THEN FZero ELSE a

\* the number a decimal literal n / 10^k is read as (parseFloat, a literal)
Dec(n, k) == IF k = 0 THEN FOfInt(n) ELSE FDivInt(FOfInt(n), 10^k)

(***************************************************************************)
(* Data.  A field a JavaScript object lacks (undefined) is a field the     *)
(* record lacks; null is the value Null.  The catalog's categories are     *)
(* written in ASCII: "kibble" is the source's 飼料, "canned" 罐頭, "snack"  *)
(* 零食, and "sideDish" the retired 副食 that stored catalogs may hold.     *)
(***************************************************************************)
Null == [null |-> TRUE]
Undefined == [undefined |-> TRUE]
NoStats == [none |-> TRUE]

INITIAL_FOODS == <<
    [id |-> "f1", name |-> "chicken stew", type |-> "canned",
     caloriesPerGram |-> Dec(841, 3), waterContentPercent |-> Dec(85, 0), order |-> 0],
    [id |-> "f2", name |-> "tuna stew", type |-> "canned",
     caloriesPerGram |-> Dec(805, 3), waterContentPercent |-> Dec(84, 0), order |-> 1],
    [id |-> "f3", name |-> "c/d stress", type |-> "kibble",
     caloriesPerGram |-> Dec(3895, 3), waterContentPercent |-> Dec(8, 0), order |-> 2,
     isDefault |-> TRUE, defaultAmount |-> Dec(30, 0)],
    [id |-> "f4", name |-> "LP34", type |-> "kibble",
     caloriesPerGram |-> Dec(3872, 3), waterContentPercent |-> Dec(7, 0), order |-> 3],
    [id |-> "f5", name |-> "LP34W", type |-> "canned",
     caloriesPerGram |-> Dec(816, 3), waterContentPercent |-> Dec(805, 1), order |-> 4],
    [id |-> "f6", name |-> "relax treat", type |-> "snack",
     caloriesPerGram |-> Dec(20, 1), waterContentPercent |-> Dec(605, 1), order |-> 5],
    [id |-> "f7", name |-> "chicken breast", type |-> "snack",
     caloriesPerGram |-> Dec(119, 2), waterContentPercent |-> Dec(60, 0), order |-> 6] >>

(***************************************************************************)
(* calculateDailyStats                                                     *)
(***************************************************************************)
RECURSIVE find(_, _)
\* foods.find(f => f.id === id): the first match, or undefined
find(fs, id) ==
    IF fs = <<>> THEN Undefined
    ELSE IF Head(fs).id = id THEN Head(fs) ELSE find(Tail(fs), id)

\* mutant: the legacy category is not counted as a snack
IsSideType_SnackOnly(typeStr) == typeStr = "snack"

\* mutant: only the legacy category is counted
IsSideType_LegacyOnly(typeStr) == typeStr = "sideDish"

\* typeStr === '零食' || typeStr === '副食'
IsSideType(typeStr) == typeStr = "snack" \/ typeStr = "sideDish"

\* mutant: totalCalories = cals instead of totalCalories += cals
FoodIntakeStep_Assign(acc, intake, fs) ==
    LET food == find(fs, intake.foodId)
    IN  IF food = Undefined THEN acc
        ELSE LET cals  == FMul(intake.amount, food.caloriesPerGram)
                 water == FMul(intake.amount, FDivInt(food.waterContentPercent, 100))
             IN  [acc EXCEPT
                    !.totalCalories = cals,
                    !.sideCalories  = IF IsSideType(food.type) THEN FAdd(@, cals) ELSE @,
                    !.foodWater     = FAdd(@, water)]

\* mutant: an intake whose food is not found is counted as plain water
FoodIntakeStep_UnknownAsWater(acc, intake, fs) ==
    LET food == find(fs, intake.foodId)
    IN  IF food = Undefined THEN [acc EXCEPT !.foodWater = FAdd(@, intake.amount)]
        ELSE LET cals  == FMul(intake.amount, food.caloriesPerGram)
                 water == FMul(intake.amount, FDivInt(food.waterContentPercent, 100))
             IN  [acc EXCEPT
                    !.totalCalories = FAdd(@, cals),
                    !.sideCalories  = IF IsSideType(food.type) THEN FAdd(@, cals) ELSE @,
                    !.foodWater     = FAdd(@, water)]

\* mutant: the water content is taken as a fraction, not as a percentage
FoodIntakeStep_WaterFraction(acc, intake, fs) ==
    LET food == find(fs, intake.foodId)
    IN  IF food = Undefined THEN acc
        ELSE LET cals  == FMul(intake.amount, food.caloriesPerGram)
                 water == FMul(intake.amount, food.waterContentPercent)
             IN  [acc EXCEPT
                    !.totalCalories = FAdd(@, cals),
                    !.sideCalories  = IF IsSideType(food.type) THEN FAdd(@, cals) ELSE @,
                    !.foodWater     = FAdd(@, water)]

\* the body of record.foodIntakes.forEach
FoodIntakeStep(acc, intake, fs) ==
    LET food == find(fs, intake.foodId)
    IN  IF food = Undefined THEN acc
        ELSE LET cals  == FMul(intake.amount, food.caloriesPerGram)
                 water == FMul(intake.amount, FDivInt(food.waterContentPercent, 100))
             IN  [acc EXCEPT
                    !.totalCalories = FAdd(@, cals),
                    !.sideCalories  = IF IsSideType(food.type) THEN FAdd(@, cals) ELSE @,
                    !.foodWater     = FAdd(@, water)]

\* w.amount2 !== null && w.amount2 !== undefined
HasLeftover(w) == "amount2" \in DOMAIN w /\ w.amount2 # Null

\* w.evaporation || 0
EvaporationOr0(w) == IF "evaporation" \in DOMAIN w THEN w.evaporation ELSE FZero

\* mutant: a bowl whose leftover is not measured yet counts as emptied
WaterIntakeStep_PendingCounts(acc, w) ==
    IF w.type = "bowl" THEN
        LET evap     == EvaporationOr0(w)
            left     == IF HasLeftover(w) THEN w.amount2 ELSE FZero
            consumed == FMax0(FSub(FSub(w.amount1, left), evap))
        IN  [acc EXCEPT !.drinkWater = FAdd(@, consumed)]
    ELSE IF w.type = "direct" THEN [acc EXCEPT !.drinkWater = FAdd(@, w.amount1)]
    ELSE IF w.type = "evaporation" THEN [acc EXCEPT !.drinkWater = FSub(@, w.amount1)]
    ELSE acc

\* mutant: the evaporation deduction stops at zero
WaterIntakeStep_EvaporationFloor(acc, w) ==
    IF w.type = "bowl" THEN
        IF HasLeftover(w)
        THEN LET evap     == EvaporationOr0(w)
                 consumed == FMax0(FSub(FSub(w.amount1, w.amount2), evap))
             IN  [acc EXCEPT !.drinkWater = FAdd(@, consumed)]
        ELSE acc
    ELSE IF w.type = "direct" THEN [acc EXCEPT !.drinkWater = FAdd(@, w.amount1)]
    ELSE IF w.type = "evaporation"
        THEN [acc EXCEPT !.drinkWater = FMax0(FSub(@, w.amount1))]
    ELSE acc

\* mutant: a direct entry is netted like a bowl (amount1 - amount2 - 10 ml spill)
WaterIntakeStep_DirectNetted(acc, w) ==
    IF w.type = "bowl" THEN
        IF HasLeftover(w)
        THEN LET evap     == EvaporationOr0(w)
                 consumed == FMax0(FSub(FSub(w.amount1, w.amount2), evap))
             IN  [acc EXCEPT !.drinkWater = FAdd(@, consumed)]
        ELSE acc
    ELSE IF w.type = "direct"
        THEN [acc EXCEPT !.drinkWater = FAdd(@, FSub(w.amount1, FOfInt(10)))]
    ELSE IF w.type = "evaporation" THEN [acc EXCEPT !.drinkWater = FSub(@, w.amount1)]
    ELSE acc

\* the body of record.waterIntakes.forEach
WaterIntakeStep(acc, w) ==
    IF w.type = "bowl" THEN
        IF HasLeftover(w)
        THEN LET evap     == EvaporationOr0(w)
                 consumed == FMax0(FSub(FSub(w.amount1, w.amount2), evap))
             IN  [acc EXCEPT !.drinkWater = FAdd(@, consumed)]
        ELSE acc
    ELSE IF w.type = "direct" THEN [acc EXCEPT !.drinkWater = FAdd(@, w.amount1)]
    ELSE IF w.type = "evaporation" THEN [acc EXCEPT !.drinkWater = FSub(@, w.amount1)]
    ELSE acc

RECURSIVE FoodIntakesForEach(_, _, _)
FoodIntakesForEach(acc, intakes, fs) ==
    IF intakes = <<>> THEN acc
    ELSE FoodIntakesForEach(FoodIntakeStep(acc, Head(intakes), fs), Tail(intakes), fs)

RECURSIVE WaterIntakesForEach(_, _)
WaterIntakesForEach(acc, intakes) ==
    IF intakes = <<>> THEN acc
    ELSE WaterIntakesForEach(WaterIntakeStep(acc, Head(intakes)), Tail(intakes))

\* let totalCalories = 0; let sideCalories = 0; let foodWater = 0; let drinkWater = 0
StatsZero ==
    [totalCalories |-> FZero, sideCalories |-> FZero, foodWater |-> FZero,
     drinkWater |-> FZero]

\* mutant: totalWater is clamped at zero
calculateDailyStats_Clamped(rec, fs) ==
    LET a1 == IF "foodIntakes" \in DOMAIN rec
              THEN FoodIntakesForEach(StatsZero, rec.foodIntakes, fs) ELSE StatsZero
        a2 == IF "waterIntakes" \in DOMAIN rec
              THEN WaterIntakesForEach(a1, rec.waterIntakes) ELSE a1
    IN  [totalCalories |-> a2.totalCalories,
         sideCalories  |-> a2.sideCalories,
         foodWater     |-> a2.foodWater,
         totalWater    |-> FMax0(FAdd(a2.foodWater, a2.drinkWater)),
         drinkWater    |-> a2.drinkWater]

calculateDailyStats(rec, fs) ==
    LET a1 == IF "foodIntakes" \in DOMAIN rec
              THEN FoodIntakesForEach(StatsZero, rec.foodIntakes, fs) ELSE StatsZero
        a2 == IF "waterIntakes" \in DOMAIN rec
              THEN WaterIntakesForEach(a1, rec.waterIntakes) ELSE a1
    IN  [totalCalories |-> a2.totalCalories,
         sideCalories  |-> a2.sideCalories,
         foodWater     |-> a2.foodWater,
         totalWater    |-> FAdd(a2.foodWater, a2.drinkWater),
         drinkWater    |-> a2.drinkWater]

(***************************************************************************)
(* State: the catalog and the record handed to calculateDailyStats and the *)
(* value it last returned (DailyEntry keeps it as `stats`).                *)
(***************************************************************************)
VARIABLES foods, record, stats

\* HistoryView.getUrineValue and DailyEntry.getUrineSliderValue: the label
\* handed to them and the value each last returned
VARIABLES label, urineVal, sliderVal

\* HistoryView: the records prop and the maps memoized from it
VARIABLES records, dailyWeightMap, dailyLitterAgeMap, dailyMedicationAgeMap

\* App and the remote store: db is the Firestore database (its collections),
\* calls the asynchronous calls in flight, isLoading and settings are App's
\* state, entry is the state of the mounted DailyEntry, alerts counts the
\* error messages shown to the user
VARIABLES db, calls, isLoading, settings, entry, alerts

\* HistoryView: the range of the backup dialog and, while isUploading, the
\* request handleCloudUpload sends to the webhook, its body being the payload
VARIABLES backupStartDate, backupEndDate, payload

\* App's navigation: the date of the diary, whether editing was forced and
\* the view shown; lastEvent is the handler that ran last
VARIABLES selectedDate, forceEditMode, currentView, lastEvent

\* the water subtotals a row of HistoryView and the water card of DailyEntry
\* show; clock is the time Date.now() returns, in milliseconds
VARIABLES historyWater, diaryWater, clock

\* for each record id, the weight the webhook received for it in the last
\* upload that markRecordsAsBackedUp completed
VARIABLES lastBackup

vars == <<foods, record, stats, label, urineVal, sliderVal,
          records, dailyWeightMap, dailyLitterAgeMap, dailyMedicationAgeMap,
          db, calls, isLoading, settings, entry, alerts,
          backupStartDate, backupEndDate, payload,
          selectedDate, forceEditMode, currentView, lastEvent,
          historyWater, diaryWater, clock, lastBackup>>

\* the value of a variable that belongs to a part of the program a
\* specification does not run
Unused == [unused |-> TRUE]

IdleVar(used, name, v) == IF name \in used THEN TRUE ELSE v = Unused

FrameVar(used, name, v) == IF name \in used THEN TRUE ELSE v' = v

\* the variables a specification does not use hold no value
IdleExcept(used) ==
    /\ IdleVar(used, "foods", foods)
    /\ IdleVar(used, "record", record)
    /\ IdleVar(used, "stats", stats)
    /\ IdleVar(used, "label", label)
    /\ IdleVar(used, "urineVal", urineVal)
    /\ IdleVar(used, "sliderVal", sliderVal)
    /\ IdleVar(used, "records", records)
    /\ IdleVar(used, "dailyWeightMap", dailyWeightMap)
    /\ IdleVar(used, "dailyLitterAgeMap", dailyLitterAgeMap)
    /\ IdleVar(used, "dailyMedicationAgeMap", dailyMedicationAgeMap)
    /\ IdleVar(used, "db", db)
    /\ IdleVar(used, "calls", calls)
    /\ IdleVar(used, "isLoading", isLoading)
    /\ IdleVar(used, "settings", settings)
    /\ IdleVar(used, "entry", entry)
    /\ IdleVar(used, "alerts", alerts)
    /\ IdleVar(used, "backupStartDate", backupStartDate)
    /\ IdleVar(used, "backupEndDate", backupEndDate)
    /\ IdleVar(used, "payload", payload)
    /\ IdleVar(used, "selectedDate", selectedDate)
    /\ IdleVar(used, "forceEditMode", forceEditMode)
    /\ IdleVar(used, "currentView", currentView)
    /\ IdleVar(used, "lastEvent", lastEvent)
    /\ IdleVar(used, "historyWater", historyWater)
    /\ IdleVar(used, "diaryWater", diaryWater)
    /\ IdleVar(used, "clock", clock)
    /\ IdleVar(used, "lastBackup", lastBackup)

\* and keep it
FrameExcept(used) ==
    /\ FrameVar(used, "foods", foods)
    /\ FrameVar(used, "record", record)
    /\ FrameVar(used, "stats", stats)
    /\ FrameVar(used, "label", label)
    /\ FrameVar(used, "urineVal", urineVal)
    /\ FrameVar(used, "sliderVal", sliderVal)
    /\ FrameVar(used, "records", records)
    /\ FrameVar(used, "dailyWeightMap", dailyWeightMap)
    /\ FrameVar(used, "dailyLitterAgeMap", dailyLitterAgeMap)
    /\ FrameVar(used, "dailyMedicationAgeMap", dailyMedicationAgeMap)
    /\ FrameVar(used, "db", db)
    /\ FrameVar(used, "calls", calls)
    /\ FrameVar(used, "isLoading", isLoading)
    /\ FrameVar(used, "settings", settings)
    /\ FrameVar(used, "entry", entry)
    /\ FrameVar(used, "alerts", alerts)
    /\ FrameVar(used, "backupStartDate", backupStartDate)
    /\ FrameVar(used, "backupEndDate", backupEndDate)
    /\ FrameVar(used, "payload", payload)
    /\ FrameVar(used, "selectedDate", selectedDate)
    /\ FrameVar(used, "forceEditMode", forceEditMode)
    /\ FrameVar(used, "currentView", currentView)
    /\ FrameVar(used, "lastEvent", lastEvent)
    /\ FrameVar(used, "historyWater", historyWater)
    /\ FrameVar(used, "diaryWater", diaryWater)
    /\ FrameVar(used, "clock", clock)
    /\ FrameVar(used, "lastBackup", lastBackup)

StatsVars == {"foods", "record", "stats"}
UrineVars == {"label", "urineVal", "sliderVal"}
HistoryVars == {"records", "dailyWeightMap", "dailyLitterAgeMap", "dailyMedicationAgeMap"}
AppVars == {"records", "db", "calls", "isLoading", "entry", "alerts"}

\* ---- bounded inputs ----------------------------------------------------
\* at most this many intake entries (food and water together) in a record
MaxIntakes == 3

\* foods an intake may reference: canned, kibble, snack, and an id no catalog holds
IntakeFoodIds == {"f1", "f3", "f7", "f0"}

\* 30 g (the default food's pre-fill amount) of any of them, or 2.5 g of the snack
FoodIntakeChoices ==
    {[foodId |-> f, amount |-> Dec(30, 0)] : f \in IntakeFoodIds}
    \cup {[foodId |-> "f7", amount |-> Dec(25, 1)]}

\* bowls: measured (with and without the deprecated evaporation offset, one
\* whose leftover and offset exceed the original), pending (leftover null), and
\* a stored bowl without the leftover field; a direct and an evaporation entry
WaterIntakeChoices ==
    {[type |-> "bowl", amount1 |-> Dec(200, 0), amount2 |-> Dec(50, 0),
      evaporation |-> Dec(10, 0)],
     [type |-> "bowl", amount1 |-> Dec(200, 0), amount2 |-> Dec(50, 0)],
     [type |-> "bowl", amount1 |-> Dec(200, 0), amount2 |-> Dec(195, 0),
      evaporation |-> Dec(10, 0)],
     [type |-> "bowl", amount1 |-> Dec(200, 0), amount2 |-> Null,
      evaporation |-> Dec(10, 0)],
     [type |-> "bowl", amount1 |-> Dec(100, 0), amount2 |-> Null],
     [type |-> "bowl", amount1 |-> Dec(200, 0)],
     [type |-> "direct", amount1 |-> Dec(205, 1), amount2 |-> FZero],
     [type |-> "evaporation", amount1 |-> Dec(30, 0), amount2 |-> FZero]}

SeqsUpTo(S, n) == UNION {[1..k -> S] : k \in 0..n}

Records ==
    UNION { {[foodIntakes |-> fi, waterIntakes |-> wi] :
                wi \in SeqsUpTo(WaterIntakeChoices, MaxIntakes - Len(fi))} :
            fi \in SeqsUpTo(FoodIntakeChoices, MaxIntakes) }

\* the catalog with food id's fields replaced (FoodManager's edit form)
WithFood(fs, id, patch) ==
    [i \in 1..Len(fs) |->
        IF fs[i].id = id
        THEN [k \in DOMAIN fs[i] |-> IF k \in DOMAIN patch THEN patch[k] ELSE fs[i][k]]
        ELSE fs[i]]

\* the seeded catalog, one that still holds the retired category, and one
\* whose kibble was saved with a negative calorie density (the form takes any number)
Catalogs ==
    {INITIAL_FOODS,
     WithFood(INITIAL_FOODS, "f7", [type |-> "sideDish"]),
     WithFood(INITIAL_FOODS, "f3", [caloriesPerGram |-> Dec(-1, 0)])}

StatsInit ==
    /\ foods \in Catalogs
    /\ record \in Records
    /\ stats = NoStats
    /\ IdleExcept(StatsVars)

\* DailyEntry's stats: calculateDailyStats(tempRecord, foods)
ComputeStats ==
    /\ stats = NoStats
    /\ stats' = calculateDailyStats(record, foods)
    /\ UNCHANGED <<foods, record>>
    /\ FrameExcept(StatsVars)

StatsNext == ComputeStats

SpecStats == StatsInit /\ [][StatsNext]_vars

(***************************************************************************)
(* Properties of calculateDailyStats, checked under SpecStats.             *)
(***************************************************************************)
Computed == stats # NoStats

StatsFields == {"totalCalories", "sideCalories", "foodWater", "totalWater", "drinkWater"}

FoodOf(intake) == find(foods, intake.foodId)
Resolved(intake) == FoodOf(intake) # Undefined
AllResolved == \A i \in 1..Len(record.foodIntakes) : Resolved(record.foodIntakes[i])
ResolvedCount == Cardinality({i \in 1..Len(record.foodIntakes) : Resolved(record.foodIntakes[i])})

\* ((0 + x1) + x2) + ... + xn, each addition rounded
RECURSIVE SumLeft(_)
SumLeft(xs) ==
    IF xs = <<>> THEN FZero ELSE FAdd(SumLeft(SubSeq(xs, 1, Len(xs) - 1)), xs[Len(xs)])

\* amount * caloriesPerGram of every intake, in list order
Products ==
    [i \in 1..Len(record.foodIntakes) |->
        FMul(record.foodIntakes[i].amount, FoodOf(record.foodIntakes[i]).caloriesPerGram)]

\* the record with its food intakes reordered by p
Reordered(p) ==
    [record EXCEPT !.foodIntakes = [i \in 1..Len(record.foodIntakes) |-> record.foodIntakes[p[i]]]]

SameTotalForEveryOrder ==
    \A p \in Permutations(1..Len(record.foodIntakes)) :
        calculateDailyStats(Reordered(p), foods).totalCalories = stats.totalCalories

\* the record without its i-th food intake
WithoutFoodIntake(i) ==
    [record EXCEPT !.foodIntakes =
        SubSeq(record.foodIntakes, 1, i - 1)
        \o SubSeq(record.foodIntakes, i + 1, Len(record.foodIntakes))]

\* C1 as claimed: when every intake references a catalog food, totalCalories is
\* the sum of amount * caloriesPerGram and is the same for every permutation of
\* the intake list.
C1_Original ==
    (Computed /\ AllResolved) =>
        /\ stats.totalCalories = SumLeft(Products)
        /\ SameTotalForEveryOrder

\* C1 amended: when every intake references a catalog food, totalCalories is the
\* sum of amount * caloriesPerGram accumulated in list order from 0, each
\* addition rounded to binary64; it is the same for every permutation of the
\* list when the list has at most two intakes.
C1_OrderedSum ==
    (Computed /\ AllResolved) =>
        /\ stats.totalCalories = SumLeft(Products)
        /\ Len(record.foodIntakes) <= 2 => SameTotalForEveryOrder

C1_Witness ==
    /\ Computed /\ AllResolved
    /\ Len(record.foodIntakes) = 2
    /\ record.foodIntakes[1].foodId # record.foodIntakes[2].foodId
    /\ FLt(FZero, stats.totalCalories)

\* C2: an intake whose foodId matches no catalog entry does not make the
\* computation fail and contributes nothing: the result is a full set of totals,
\* equal to the result for the record with that intake removed.
C2_UnknownFoodIsZero ==
    Computed =>
        /\ DOMAIN stats = StatsFields
        /\ \A i \in 1..Len(record.foodIntakes) :
              ~Resolved(record.foodIntakes[i]) =>
                  stats = calculateDailyStats(WithoutFoodIntake(i), foods)

C2_Witness ==
    /\ Computed
    /\ \E i, j \in 1..Len(record.foodIntakes) :
          ~Resolved(record.foodIntakes[i]) /\ Resolved(record.foodIntakes[j])
    /\ FLt(FZero, stats.totalCalories)
    /\ FLt(FZero, stats.totalWater)

IsSnackIntake(intake) == Resolved(intake) /\ FoodOf(intake).type = "snack"
EveryResolvedIsSnack ==
    \A i \in 1..Len(record.foodIntakes) :
        Resolved(record.foodIntakes[i]) => IsSnackIntake(record.foodIntakes[i])
NoNegativeCalories ==
    \A i \in 1..Len(record.foodIntakes) :
        Resolved(record.foodIntakes[i]) => Products[i].s = 0

\* C3 as claimed: for every record and catalog sideCalories <= totalCalories,
\* with equality when every resolved intake references a snack.
C3_Original ==
    Computed =>
        /\ FLe(stats.sideCalories, stats.totalCalories)
        /\ EveryResolvedIsSnack => stats.sideCalories = stats.totalCalories

\* C3 amended: for every record and catalog in which no resolved intake has a
\* negative amount * caloriesPerGram, sideCalories <= totalCalories; and for
\* every record and catalog sideCalories = totalCalories when every resolved
\* intake references a snack.
C3_SideAtMostTotal ==
    Computed =>
        /\ NoNegativeCalories => FLe(stats.sideCalories, stats.totalCalories)
        /\ EveryResolvedIsSnack => stats.sideCalories = stats.totalCalories

C3_Witness ==
    /\ Computed /\ NoNegativeCalories
    /\ \E i, j \in 1..Len(record.foodIntakes) :
          IsSnackIntake(record.foodIntakes[i])
          /\ Resolved(record.foodIntakes[j]) /\ ~IsSnackIntake(record.foodIntakes[j])
    /\ FLt(FZero, stats.sideCalories)
    /\ FLt(stats.sideCalories, stats.totalCalories)

\* drinkWater once the first i water intakes of the record are accumulated
DrinkAfter(i) ==
    calculateDailyStats([waterIntakes |-> SubSeq(record.waterIntakes, 1, i)], foods).drinkWater

\* the record without its i-th water intake
WithoutWaterIntake(i) ==
    [record EXCEPT !.waterIntakes =
        SubSeq(record.waterIntakes, 1, i - 1)
        \o SubSeq(record.waterIntakes, i + 1, Len(record.waterIntakes))]

IsMeasuredBowl(w) == w.type = "bowl" /\ "amount2" \in DOMAIN w /\ w.amount2 # Null
IsPendingBowl(w) == w.type = "bowl" /\ "amount2" \in DOMAIN w /\ w.amount2 = Null

\* max(0, original - leftover - offset), a missing offset counting as 0
BowlNet(w) ==
    LET offset == IF "evaporation" \in DOMAIN w THEN w.evaporation ELSE FOfInt(0)
        net    == FSub(FSub(w.amount1, w.amount2), offset)
    IN  IF FLt(net, FOfInt(0)) THEN FOfInt(0) ELSE net

SpecBowl ==
    [type |-> "bowl", amount1 |-> FOfInt(200), amount2 |-> FOfInt(50),
     evaporation |-> FOfInt(10)]

\* C4: a bowl entry whose leftover is non-null adds
\* max(0, original - leftover - evaporationOffset) to drinkWater, a missing
\* offset counting as 0; it never adds a negative amount, and the bowl
\* 200 / 50 / 10 adds 140.
C4_BowlNetConsumed ==
    Computed =>
        \A i \in 1..Len(record.waterIntakes) :
            LET w == record.waterIntakes[i]
            IN  IsMeasuredBowl(w) =>
                    /\ DrinkAfter(i) = FAdd(DrinkAfter(i - 1), BowlNet(w))
                    /\ FLe(DrinkAfter(i - 1), DrinkAfter(i))
                    /\ w = SpecBowl => DrinkAfter(i) = FAdd(DrinkAfter(i - 1), FOfInt(140))
                    /\ i = Len(record.waterIntakes) => stats.drinkWater = DrinkAfter(i)

\* a measured bowl whose leftover plus offset exceed the original follows an
\* entry, and the spec's bowl is the last entry
C4_Witness ==
    /\ Computed
    /\ Len(record.waterIntakes) = 3
    /\ record.waterIntakes[1].type = "direct"
    /\ IsMeasuredBowl(record.waterIntakes[2])
    /\ FLt(FSub(record.waterIntakes[2].amount1, record.waterIntakes[2].amount2),
           EvaporationOr0(record.waterIntakes[2]))
    /\ record.waterIntakes[3] = SpecBowl
    /\ stats.drinkWater = FAdd(record.waterIntakes[1].amount1, FOfInt(140))

\* C5: a bowl entry whose leftover is null contributes 0 to drinkWater whatever
\* its original amount and evaporation offset are: the result is that of the
\* record without the entry.
C5_PendingBowlIsZero ==
    Computed =>
        \A i \in 1..Len(record.waterIntakes) :
            IsPendingBowl(record.waterIntakes[i]) =>
                /\ DrinkAfter(i) = DrinkAfter(i - 1)
                /\ stats = calculateDailyStats(WithoutWaterIntake(i), foods)

\* two pending bowls of different original amounts, one with an offset, beside
\* an entry that counts
C5_Witness ==
    /\ Computed
    /\ \E i, j, k \in 1..Len(record.waterIntakes) :
          /\ IsPendingBowl(record.waterIntakes[i])
          /\ IsPendingBowl(record.waterIntakes[j])
          /\ record.waterIntakes[i].amount1 # record.waterIntakes[j].amount1
          /\ "evaporation" \in DOMAIN record.waterIntakes[i]
          /\ record.waterIntakes[k].type = "direct"
    /\ FLt(FZero, stats.drinkWater)

\* C6: an evaporation entry with amount a subtracts a from drinkWater, at every
\* position of the list (the running total may go below zero); a record whose
\* only water intake is an evaporation entry of 30 has drinkWater -30.
C6_EvaporationSubtracts ==
    Computed =>
        /\ \A i \in 1..Len(record.waterIntakes) :
              LET w == record.waterIntakes[i]
              IN  w.type = "evaporation" =>
                      /\ DrinkAfter(i) = FSub(DrinkAfter(i - 1), w.amount1)
                      /\ i = Len(record.waterIntakes) => stats.drinkWater = DrinkAfter(i)
        /\ record.waterIntakes = <<[type |-> "evaporation", amount1 |-> FOfInt(30),
                                    amount2 |-> FOfInt(0)]>>
              => stats.drinkWater = FOfInt(-30)

\* an evaporation entry first (running total below zero) and one last
C6_Witness ==
    /\ Computed
    /\ Len(record.waterIntakes) = 3
    /\ record.waterIntakes[1].type = "evaporation"
    /\ IsMeasuredBowl(record.waterIntakes[2])
    /\ record.waterIntakes[3].type = "evaporation"
    /\ DrinkAfter(1).s = 1
    /\ FLt(FZero, stats.drinkWater)

\* C7: a direct entry with amount a adds the full amount a to drinkWater.
C7_DirectAddsAmount ==
    Computed =>
        \A i \in 1..Len(record.waterIntakes) :
            LET w == record.waterIntakes[i]
            IN  w.type = "direct" =>
                    /\ DrinkAfter(i) = FAdd(DrinkAfter(i - 1), w.amount1)
                    /\ i = Len(record.waterIntakes) => stats.drinkWater = DrinkAfter(i)

C7_Witness ==
    /\ Computed
    /\ Len(record.waterIntakes) = 2
    /\ record.waterIntakes[1].type = "evaporation"
    /\ record.waterIntakes[2].type = "direct"
    /\ stats.drinkWater = FSub(record.waterIntakes[2].amount1, record.waterIntakes[1].amount1)

\* what the bowl and direct entries bring, and what the evaporation entries deduct
IntakeOf(w) ==
    IF IsMeasuredBowl(w) THEN BowlNet(w)
    ELSE IF w.type = "direct" THEN w.amount1 ELSE FOfInt(0)
DeductionOf(w) == IF w.type = "evaporation" THEN w.amount1 ELSE FOfInt(0)
WaterIntakeSum == SumLeft([i \in 1..Len(record.waterIntakes) |-> IntakeOf(record.waterIntakes[i])])
DeductionSum == SumLeft([i \in 1..Len(record.waterIntakes) |-> DeductionOf(record.waterIntakes[i])])

\* C8: totalWater = foodWater + drinkWater, not clamped at zero: when the
\* evaporation deductions exceed the bowl and direct intake plus the food water,
\* the returned drinkWater and totalWater are negative.
C8_TotalWaterNotClamped ==
    Computed =>
        /\ stats.totalWater = FAdd(stats.foodWater, stats.drinkWater)
        /\ FLt(FAdd(WaterIntakeSum, stats.foodWater), DeductionSum) =>
              /\ stats.drinkWater.s = 1
              /\ stats.totalWater.s = 1

C8_Witness ==
    /\ Computed
    /\ FLt(FZero, stats.foodWater)
    /\ FLt(FZero, WaterIntakeSum)
    /\ FLt(FAdd(WaterIntakeSum, stats.foodWater), DeductionSum)
    /\ stats.totalWater.s = 1

\* the catalog with the category of food id set to t
Recategorized(id, t) == WithFood(foods, id, [type |-> t])

IsMainIntake(intake) == Resolved(intake) /\ FoodOf(intake).type \in {"kibble", "canned"}

\* the record without the intakes of kibble and canned foods
WithoutMainIntakes ==
    [record EXCEPT !.foodIntakes = SelectSeq(record.foodIntakes, LAMBDA x : ~IsMainIntake(x))]

\* C9: the legacy category 'sideDish' is treated exactly like 'snack': replacing
\* the category of a referenced food between the two leaves every returned total
\* unchanged; foods of category kibble or canned add nothing to sideCalories.
C9_LegacySideDishIsSnack ==
    Computed =>
        /\ \A i \in 1..Len(foods) :
              /\ foods[i].type = "snack" =>
                    calculateDailyStats(record, Recategorized(foods[i].id, "sideDish")) = stats
              /\ foods[i].type = "sideDish" =>
                    calculateDailyStats(record, Recategorized(foods[i].id, "snack")) = stats
        /\ stats.sideCalories = calculateDailyStats(WithoutMainIntakes, foods).sideCalories

\* the catalog holds a sideDish food, the record references it beside a kibble
\* or canned food
C9_Witness ==
    /\ Computed
    /\ \E i, j \in 1..Len(record.foodIntakes) :
          /\ Resolved(record.foodIntakes[i])
          /\ FoodOf(record.foodIntakes[i]).type = "sideDish"
          /\ IsMainIntake(record.foodIntakes[j])
    /\ FLt(FZero, stats.sideCalories)
    /\ FLt(stats.sideCalories, stats.totalCalories)

\* amount * waterContentPercent / 100 of every resolved intake, in list order
WaterProducts ==
    LET resolved == SelectSeq(record.foodIntakes, Resolved)
    IN  [i \in 1..Len(resolved) |->
            FMul(resolved[i].amount, FDivInt(FoodOf(resolved[i]).waterContentPercent, 100))]

\* the single intake of 30 g of the kibble with 3.895 kcal/g and 8 % water
IsKibbleScenario ==
    /\ record.foodIntakes = <<[foodId |-> "f3", amount |-> FOfInt(30)]>>
    /\ record.waterIntakes = <<>>
    /\ FoodOf(record.foodIntakes[1]) # Undefined
    /\ FoodOf(record.foodIntakes[1]).type = "kibble"
    /\ FoodOf(record.foodIntakes[1]).caloriesPerGram = Dec(3895, 3)
    /\ FoodOf(record.foodIntakes[1]).waterContentPercent = FOfInt(8)

\* C11: 30 g of a kibble with 3.895 kcal/g and 8 % water and no water intakes
\* gives totalCalories 116.85, sideCalories 0, foodWater 2.4 and totalWater 2.4;
\* in general foodWater is the sum of amount * waterContentPercent / 100 over
\* the resolved intakes.
C11_KibbleScenario ==
    Computed =>
        /\ stats.foodWater = SumLeft(WaterProducts)
        /\ IsKibbleScenario =>
              /\ stats.totalCalories = Dec(11685, 2)
              /\ stats.sideCalories = FOfInt(0)
              /\ stats.foodWater = Dec(24, 1)
              /\ stats.totalWater = Dec(24, 1)

C11_Witness ==
    /\ Computed /\ IsKibbleScenario
    /\ stats.totalCalories = Dec(11685, 2)
    /\ stats.totalWater = Dec(24, 1)

(***************************************************************************)
(* The urine-size scale.  A label is a string; it is modelled as the       *)
(* sequence of its pieces, a piece being one of the five anchor labels,    *)
(* the separator " ~ " or a character "x" that occurs in no anchor.  No    *)
(* anchor is the prefix of another and the separator's characters occur in *)
(* no anchor, so different sequences are different strings,                *)
(* label.includes(' ~ ') holds exactly when the separator is a piece and   *)
(* label.split(' ~ ') cuts at the separator pieces.                        *)
(***************************************************************************)
Str(piece) == <<piece>>

\* ['1元', '50元', '半拳', '一拳', '巨大']
URINE_ANCHORS == <<Str("1yuan"), Str("50yuan"), Str("halfFist"), Str("oneFist"), Str("huge")>>

Tilde == " ~ "

\* Array.prototype.indexOf: the 0-based index of the first element equal to x, or -1
indexOf(arr, x) ==
    IF \E i \in 1..Len(arr) : arr[i] = x
    THEN (CHOOSE i \in 1..Len(arr) : arr[i] = x /\ \A j \in 1..(i - 1) : arr[j] # x) - 1
    ELSE -1

\* String.prototype.includes(' ~ ')
includes(str, sep) == \E i \in 1..Len(str) : str[i] = sep

\* String.prototype.split(' ~ ')
RECURSIVE split(_, _)
split(str, sep) ==
    IF ~includes(str, sep) THEN <<str>>
    ELSE LET i == CHOOSE k \in 1..Len(str) : str[k] = sep /\ \A j \in 1..(k - 1) : str[j] # sep
         IN  <<SubSeq(str, 1, i - 1)>> \o split(SubSeq(str, i + 1, Len(str)), sep)

\* mutant: an intermediate label counts as its lower anchor
getUrineValue_NoHalf(lbl) ==
    LET exactIndex == indexOf(URINE_ANCHORS, lbl)
    IN  IF exactIndex # -1 THEN FOfInt(exactIndex)
        ELSE IF includes(lbl, Tilde)
             THEN LET parts    == split(lbl, Tilde)
                      startIdx == indexOf(URINE_ANCHORS, parts[1])
                  IN  IF startIdx # -1 THEN FOfInt(startIdx) ELSE FOfInt(2)
             ELSE FOfInt(2)

\* HistoryView.getUrineValue
getUrineValue(lbl) ==
    LET exactIndex == indexOf(URINE_ANCHORS, lbl)
    IN  IF exactIndex # -1 THEN FOfInt(exactIndex)
        ELSE IF includes(lbl, Tilde)
             THEN LET parts    == split(lbl, Tilde)
                      startIdx == indexOf(URINE_ANCHORS, parts[1])
                  IN  IF startIdx # -1 THEN FAdd(FOfInt(startIdx), Dec(5, 1)) ELSE FOfInt(2)
             ELSE FOfInt(2)

\* DailyEntry.getUrineSliderValue
getUrineSliderValue(lbl) ==
    LET exactIndex == indexOf(URINE_ANCHORS, lbl)
    IN  IF exactIndex # -1 THEN FOfInt(exactIndex)
        ELSE IF includes(lbl, Tilde)
             THEN LET parts    == split(lbl, Tilde)
                      startIdx == indexOf(URINE_ANCHORS, parts[1])
                  IN  IF startIdx # -1 THEN FAdd(FOfInt(startIdx), Dec(5, 1)) ELSE FOfInt(2)
             ELSE FOfInt(2)

\* at most this many pieces in a label
MaxLabelLen == 3

Pieces == {URINE_ANCHORS[i][1] : i \in 1..Len(URINE_ANCHORS)} \cup {Tilde, "x"}

Labels == SeqsUpTo(Pieces, MaxLabelLen)

NoValue == [none |-> TRUE]

UrineInit ==
    /\ label \in Labels
    /\ urineVal = NoValue
    /\ sliderVal = NoValue
    /\ IdleExcept(UrineVars)

\* HistoryView: const urineVal = getUrineValue(r.urineSize)
GetUrineValue ==
    /\ urineVal = NoValue
    /\ urineVal' = getUrineValue(label)
    /\ UNCHANGED <<label, sliderVal>>
    /\ FrameExcept(UrineVars)

\* DailyEntry: const currentSliderValue = getUrineSliderValue(urineSize)
GetUrineSliderValue ==
    /\ sliderVal = NoValue
    /\ sliderVal' = getUrineSliderValue(label)
    /\ UNCHANGED <<label, urineVal>>
    /\ FrameExcept(UrineVars)

UrineNext == GetUrineValue \/ GetUrineSliderValue

SpecUrine == UrineInit /\ [][UrineNext]_vars

(***************************************************************************)
(* Properties of the urine-size mapping, checked under SpecUrine.          *)
(***************************************************************************)
UrineComputed == urineVal # NoValue /\ sliderVal # NoValue

IsAnchor(lbl) == \E i \in 1..Len(URINE_ANCHORS) : URINE_ANCHORS[i] = lbl

\* "<lowerLabel> ~ <upperLabel>", both anchors
IsIntermediate(lbl) ==
    /\ Len(lbl) = 3
    /\ IsAnchor(Str(lbl[1])) /\ lbl[2] = Tilde /\ IsAnchor(Str(lbl[3]))

\* the label starts with an anchor followed by the separator
StartsWithAnchorTilde(lbl) ==
    /\ Len(lbl) >= 2
    /\ IsAnchor(Str(lbl[1])) /\ lbl[2] = Tilde

AnchorIndex(piece) == CHOOSE i \in 0..4 : URINE_ANCHORS[i + 1] = Str(piece)

Half == Dec(5, 1)

DateStr(y, m, d) == [y |-> y, m |-> m, d |-> d]

\* a.localeCompare(b) of two dates: the digits are compared left to right
localeCompare(a, b) ==
    IF a.y # b.y THEN (IF a.y < b.y THEN -1 ELSE 1)
    ELSE IF a.m # b.m THEN (IF a.m < b.m THEN -1 ELSE 1)
    ELSE IF a.d # b.d THEN (IF a.d < b.d THEN -1 ELSE 1)
    ELSE 0

\* 1000 * 60 * 60 * 24 milliseconds, counted in minutes: every time below is
\* a whole number of minutes, and a count of milliseconds since 1970 exceeds
\* the integers TLC computes with
MsPerDay == 60 * 24

IsLeapYear(y) == (y % 4 = 0 /\ y % 100 # 0) \/ y % 400 = 0

\* leap years before year y
LeapsBefore(y) == ((y - 1) \div 4) - ((y - 1) \div 100) + ((y - 1) \div 400)

DaysInMonth(y, m) ==
    IF m = 2 THEN (IF IsLeapYear(y) THEN 29 ELSE 28)
    ELSE IF m \in {4, 6, 9, 11} THEN 30 ELSE 31

RECURSIVE DaysBeforeMonth(_, _)
DaysBeforeMonth(y, m) ==
    IF m = 1 THEN 0 ELSE DaysBeforeMonth(y, m - 1) + DaysInMonth(y, m - 1)

\* new Date('YYYY-MM-DD').getTime(): the time from 1970-01-01 to that UTC
\* midnight (in minutes, see MsPerDay)
getTime(date) ==
    (365 * (date.y - 1970) + LeapsBefore(date.y) - LeapsBefore(1970)
        + DaysBeforeMonth(date.y, date.m) + (date.d - 1)) * MsPerDay

abs(n) == IF n < 0 THEN -n ELSE n

\* Math.ceil(n / k) of integers n >= 0, k > 0
ceilDiv(n, k) == (n + k - 1) \div k

\* [...records].sort((a, b) => a.date.localeCompare(b.date)): the sort is stable
RECURSIVE InsertByDate(_, _)
InsertByDate(sorted, r) ==
    IF sorted = <<>> THEN <<r>>
    ELSE IF localeCompare(sorted[Len(sorted)].date, r.date) <= 0 THEN Append(sorted, r)
    ELSE Append(InsertByDate(SubSeq(sorted, 1, Len(sorted) - 1), r), sorted[Len(sorted)])

RECURSIVE sortByDate(_)
sortByDate(rs) ==
    IF rs = <<>> THEN <<>>
    ELSE InsertByDate(sortByDate(SubSeq(rs, 1, Len(rs) - 1)), rs[Len(rs)])

\* new Map() and map.set(key, value): a Map object holds its entries
EmptyMap == [entries |-> <<>>]
MapSet(map, key, value) ==
    [entries |-> [k \in DOMAIN map.entries \cup {key} |->
                    IF k = key THEN value ELSE map.entries[k]]]

\* let lastKnownWeight = 5.0
FallbackWeight == Dec(50, 1)

\* mutant: a record without a weight (0) resets the carried weight
WeightStep_ZeroCarried(acc, r) ==
    LET last == IF FLe(FZero, r.weight) THEN r.weight ELSE acc.lastKnownWeight
    IN  [lastKnownWeight |-> last, map |-> MapSet(acc.map, r.date, last)]

\* the body of dailyWeightMap's forEach
WeightStep(acc, r) ==
    LET last == IF FLt(FZero, r.weight) THEN r.weight ELSE acc.lastKnownWeight
    IN  [lastKnownWeight |-> last, map |-> MapSet(acc.map, r.date, last)]

RECURSIVE WeightForEach(_, _)
WeightForEach(acc, rs) ==
    IF rs = <<>> THEN acc ELSE WeightForEach(WeightStep(acc, Head(rs)), Tail(rs))

\* HistoryView.dailyWeightMap
WeightMap(rs) ==
    WeightForEach([lastKnownWeight |-> FallbackWeight, map |-> EmptyMap], sortByDate(rs)).map

ChangeLitter == "changeLitter"
Medication == "medication"

\* r.notes && r.notes.includes(marker)
hasMarker(r, marker) ==
    /\ "notes" \in DOMAIN r
    /\ r.notes # <<>>
    /\ includes(r.notes, marker)

\* mutant: a marked day shows the days since the previous marked day
AgeStep_NoSameDayReset(acc, r, marker) ==
    IF hasMarker(r, marker) /\ acc.lastDate = Null
    THEN [lastDate |-> r.date, map |-> MapSet(acc.map, r.date, 0)]
    ELSE IF acc.lastDate # Null
    THEN LET diffTime == abs(getTime(r.date) - getTime(acc.lastDate))
             diffDays == ceilDiv(diffTime, MsPerDay)
         IN  [lastDate |-> IF hasMarker(r, marker) THEN r.date ELSE acc.lastDate,
              map |-> MapSet(acc.map, r.date, diffDays)]
    ELSE [acc EXCEPT !.map = MapSet(@, r.date, -1)]

\* the body of the forEach of dailyLitterAgeMap and of dailyMedicationAgeMap
AgeStep(acc, r, marker) ==
    IF hasMarker(r, marker)
    THEN [lastDate |-> r.date, map |-> MapSet(acc.map, r.date, 0)]
    ELSE IF acc.lastDate # Null
    THEN LET diffTime == abs(getTime(r.date) - getTime(acc.lastDate))
             diffDays == ceilDiv(diffTime, MsPerDay)
         IN  [acc EXCEPT !.map = MapSet(@, r.date, diffDays)]
    ELSE [acc EXCEPT !.map = MapSet(@, r.date, -1)]

RECURSIVE AgeForEach(_, _, _)
AgeForEach(acc, rs, marker) ==
    IF rs = <<>> THEN acc ELSE AgeForEach(AgeStep(acc, Head(rs), marker), Tail(rs), marker)

\* HistoryView.dailyLitterAgeMap
LitterAgeMap(rs) ==
    AgeForEach([lastDate |-> Null, map |-> EmptyMap], sortByDate(rs), ChangeLitter).map

\* HistoryView.dailyMedicationAgeMap
MedicationAgeMap(rs) ==
    AgeForEach([lastDate |-> Null, map |-> EmptyMap], sortByDate(rs), Medication).map

\* ---- bounded inputs ----------------------------------------------------
\* at most this many records in the list handed to HistoryView
MaxRecords == 3

\* the records of the reminder scenario (01-01 marked, 01-05 not, 01-10 marked),
\* a second document for 01-05, and two records around the end of February of
\* a leap year, one of them stored without notes
RecordChoices ==
    {[id |-> "r1", date |-> DateStr(2024, 1, 1), weight |-> Dec(42, 1),
      notes |-> <<ChangeLitter>>],
     [id |-> "r2", date |-> DateStr(2024, 1, 5), weight |-> FZero, notes |-> <<>>],
     [id |-> "r3", date |-> DateStr(2024, 1, 10), weight |-> Dec(55, 1),
      notes |-> <<"x", ChangeLitter, Medication>>],
     [id |-> "r4", date |-> DateStr(2024, 1, 5), weight |-> Dec(45, 1),
      notes |-> <<Medication>>],
     [id |-> "r5", date |-> DateStr(2024, 2, 28), weight |-> Dec(39, 1)],
     [id |-> "r6", date |-> DateStr(2024, 3, 1), weight |-> FZero, notes |-> <<"x">>]}

\* lists of different records, in any order
RecordLists ==
    {rs \in SeqsUpTo(RecordChoices, MaxRecords) :
        \A i, j \in 1..Len(rs) : i # j => rs[i] # rs[j]}

HistoryInit ==
    /\ records \in RecordLists
    /\ dailyWeightMap = NoValue
    /\ dailyLitterAgeMap = NoValue
    /\ dailyMedicationAgeMap = NoValue
    /\ IdleExcept(HistoryVars)

\* const dailyWeightMap = useMemo(..., [records])
MemoWeightMap ==
    /\ dailyWeightMap = NoValue
    /\ dailyWeightMap' = WeightMap(records)
    /\ UNCHANGED <<records, dailyLitterAgeMap, dailyMedicationAgeMap>>
    /\ FrameExcept(HistoryVars)

\* const dailyLitterAgeMap = useMemo(..., [records])
MemoLitterAgeMap ==
    /\ dailyLitterAgeMap = NoValue
    /\ dailyLitterAgeMap' = LitterAgeMap(records)
    /\ UNCHANGED <<records, dailyWeightMap, dailyMedicationAgeMap>>
    /\ FrameExcept(HistoryVars)

\* const dailyMedicationAgeMap = useMemo(..., [records])
MemoMedicationAgeMap ==
    /\ dailyMedicationAgeMap = NoValue
    /\ dailyMedicationAgeMap' = MedicationAgeMap(records)
    /\ UNCHANGED <<records, dailyWeightMap, dailyLitterAgeMap>>
    /\ FrameExcept(HistoryVars)

HistoryNext == MemoWeightMap \/ MemoLitterAgeMap \/ MemoMedicationAgeMap

SpecHistory == HistoryInit /\ [][HistoryNext]_vars

(***************************************************************************)
(* Properties of HistoryView's maps, checked under SpecHistory.            *)
(***************************************************************************)
AgeMapsComputed == dailyLitterAgeMap # NoValue /\ dailyMedicationAgeMap # NoValue

RecordDates == {records[i].date : i \in 1..Len(records)}

Before(d1, d2) ==
    \/ d1.y < d2.y
    \/ d1.y = d2.y /\ d1.m < d2.m
    \/ d1.y = d2.y /\ d1.m = d2.m /\ d1.d < d2.d

\* the notes of some record of date d contain the marker
Marked(d, marker) ==
    \E i \in 1..Len(records) :
        /\ records[i].date = d
        /\ "notes" \in DOMAIN records[i]
        /\ \E j \in 1..Len(records[i].notes) : records[i].notes[j] = marker

DayNumber(d) == getTime(d) \div MsPerDay

\* 0 on a marked date, else the days since the most recent earlier marked
\* date, else -1
DaysSince(d, marker) ==
    LET earlier == {e \in RecordDates : Before(e, d) /\ Marked(e, marker)}
    IN  IF Marked(d, marker) THEN 0
        ELSE IF earlier = {} THEN -1
        ELSE LET last == CHOOSE e \in earlier : \A f \in earlier : f = e \/ Before(f, e)
             IN  DayNumber(d) - DayNumber(last)

\* the records in the order p
RecordsInOrder(p) == [i \in 1..Len(records) |-> records[p[i]]]

IsReminderScenario ==
    /\ Len(records) = 3
    /\ {records[i].id : i \in 1..3} = {"r1", "r2", "r3"}

\* C13: the litter and the medication map give every record date 0 when the
\* date's notes contain the marker, else the days since the most recent earlier
\* marked date, else -1; 01-01 marked, 01-05 unmarked, 01-10 marked gives
\* 0, 4, 0; the maps are the same for every order of the records list.
C13_ReminderCycle ==
    AgeMapsComputed =>
        /\ DOMAIN dailyLitterAgeMap.entries = RecordDates
        /\ DOMAIN dailyMedicationAgeMap.entries = RecordDates
        /\ \A d \in RecordDates :
              /\ dailyLitterAgeMap.entries[d] = DaysSince(d, ChangeLitter)
              /\ dailyMedicationAgeMap.entries[d] = DaysSince(d, Medication)
        /\ \A p \in Permutations(1..Len(records)) :
              /\ LitterAgeMap(RecordsInOrder(p)) = dailyLitterAgeMap
              /\ MedicationAgeMap(RecordsInOrder(p)) = dailyMedicationAgeMap
        /\ IsReminderScenario =>
              dailyLitterAgeMap.entries =
                  (DateStr(2024, 1, 1) :> 0 @@ DateStr(2024, 1, 5) :> 4
                   @@ DateStr(2024, 1, 10) :> 0)

\* the scenario's records handed over latest first; the medication map of the
\* same list has the sentinel on the first two dates
C13_Witness ==
    /\ AgeMapsComputed
    /\ IsReminderScenario
    /\ records[1].id = "r3" /\ records[3].id = "r1"
    /\ dailyLitterAgeMap.entries[DateStr(2024, 1, 5)] = 4
    /\ dailyMedicationAgeMap.entries[DateStr(2024, 1, 5)] = -1
    /\ dailyMedicationAgeMap.entries[DateStr(2024, 1, 10)] = 0

\* the records dated at or before d whose weight is positive
PositiveUpTo(d) ==
    {i \in 1..Len(records) :
        /\ ~Before(d, records[i].date)
        /\ FLt(FZero, records[i].weight)}

\* C14: dailyWeightMap gives every record date the weight of the latest record
\* dated at or before it whose weight is positive, and 5.0 when there is none;
\* a record with weight 0 does not change the carried value.
C14_WeightForwardFill ==
    dailyWeightMap # NoValue =>
        /\ DOMAIN dailyWeightMap.entries = RecordDates
        /\ \A d \in RecordDates :
              IF PositiveUpTo(d) = {}
              THEN dailyWeightMap.entries[d] = Dec(50, 1)
              ELSE \E i \in PositiveUpTo(d) :
                      /\ dailyWeightMap.entries[d] = records[i].weight
                      /\ \A j \in PositiveUpTo(d) : ~Before(records[i].date, records[j].date)

\* a date without weight before any weight falls back to 5.0, another one
\* after a weighed date carries that weight
C14_Witness ==
    /\ dailyWeightMap # NoValue
    /\ {records[i].id : i \in 1..Len(records)} = {"r2", "r5", "r6"}
    /\ dailyWeightMap.entries[DateStr(2024, 1, 5)] = Dec(50, 1)
    /\ dailyWeightMap.entries[DateStr(2024, 2, 28)] = Dec(39, 1)
    /\ dailyWeightMap.entries[DateStr(2024, 3, 1)] = Dec(39, 1)

(***************************************************************************)
(* App, DailyEntry and the remote records collection.  A collection is the *)
(* set of its documents (one per document id); of a record the id and the  *)
(* date are kept, of the form whether it differs from its clean snapshot.  *)
(* An asynchronous call in flight is a record of calls: its pc tells which *)
(* await it has reached.                                                   *)
(***************************************************************************)
\* at most this many uuids are drawn, and this many calls are in flight at once
MaxUuids == 2
MaxCalls == 2
MaxAlerts == 1

\* uuidv4() draws an id no record, document or call holds
Uuids == 1..MaxUuids

Today == DateStr(2024, 1, 5)
DiaryDates == {Today, DateStr(2024, 1, 1)}

\* the time stamp Date.now() puts on a stored record; no operation here reads it
Now == "now"

NoEntry == [none |-> TRUE]

\* setDoc(doc(db, "records", id), data) and deleteDoc(doc(db, "records", id))
setDoc(coll, id, data) == {d \in coll : d.id # id} \cup {data}
deleteDoc(coll, id) == {d \in coll : d.id # id}

\* getDocs(collection): the documents in the order of their ids
RECURSIVE getDocsFrom(_, _)
getDocsFrom(coll, id) ==
    IF id > MaxUuids THEN <<>>
    ELSE (IF \E d \in coll : d.id = id
          THEN <<CHOOSE d \in coll : d.id = id>> ELSE <<>>) \o getDocsFrom(coll, id + 1)
getDocs(coll) == getDocsFrom(coll, 1)

\* records.find(r => r.date === date)
getRecordForDate(recs, date) ==
    IF \E i \in 1..Len(recs) : recs[i].date = date
    THEN recs[CHOOSE i \in 1..Len(recs) :
                 recs[i].date = date /\ \A j \in 1..(i - 1) : recs[j].date # date]
    ELSE Undefined

\* DailyEntry's load effect: the form and its clean snapshot are both taken
\* from the existing record (or both empty), so the form is clean
LoadEffect(e, date) ==
    [date |-> date, dirty |-> FALSE,
     showSaveFeedback |-> IF e = NoEntry THEN FALSE ELSE e.showSaveFeedback]

\* the effect runs when existingRecord is another object than before, or the date changed
ReloadIf(changed) ==
    IF changed THEN LoadEffect(entry, entry.date) ELSE entry

isDirty == entry.dirty

UsedIds ==
    {d.id : d \in db.records} \cup {records[i].id : i \in 1..Len(records)}
    \cup {c.record.id : c \in {x \in calls : x.op = "saveRecord"}}

\* mutant of handleSaveRecord's update: the saved record is always appended
SaveIntoList_Append(prev, updatedRecord) == Append(prev, updatedRecord)

\* setRecords(prev => ...) of handleSaveRecord
SaveIntoList(prev, updatedRecord) ==
    IF \E i \in 1..Len(prev) : prev[i].date = updatedRecord.date
    THEN LET existingIndex == CHOOSE i \in 1..Len(prev) :
                 prev[i].date = updatedRecord.date
                 /\ \A j \in 1..(i - 1) : prev[j].date # updatedRecord.date
         IN  [prev EXCEPT ![existingIndex] = updatedRecord]
    ELSE Append(prev, updatedRecord)

Replace(c, d) == (calls \ {c}) \cup {d}

AppInit ==
    /\ db = [records |-> {}]
    /\ records = <<>>
    /\ isLoading = TRUE
    /\ calls = {[op |-> "fetchRecords", pc |-> "getDocs"]}
    /\ entry = NoEntry
    /\ alerts = 0
    /\ IdleExcept(AppVars)

\* HistoryView's onRefresh: refreshRecords
RefreshRecords ==
    /\ ~isLoading
    /\ Cardinality(calls) < MaxCalls
    /\ ~\E c \in calls : c.op = "fetchRecords"
    /\ calls' = calls \cup {[op |-> "fetchRecords", pc |-> "getDocs"]}
    /\ UNCHANGED <<db, records, isLoading, entry, alerts>>
    /\ FrameExcept(AppVars)

\* fetchRecords: getDocs answers
FetchRecordsOk(c) ==
    /\ c.op = "fetchRecords" /\ c.pc = "getDocs"
    /\ calls' = Replace(c, [op |-> "fetchRecords", pc |-> "return", result |-> getDocs(db.records)])
    /\ UNCHANGED <<db, records, isLoading, entry, alerts>>
    /\ FrameExcept(AppVars)

\* fetchRecords: getDocs fails, the catch returns []
FetchRecordsFail(c) ==
    /\ c.op = "fetchRecords" /\ c.pc = "getDocs"
    /\ calls' = Replace(c, [op |-> "fetchRecords", pc |-> "return", result |-> <<>>])
    /\ UNCHANGED <<db, records, isLoading, entry, alerts>>
    /\ FrameExcept(AppVars)

\* loadData / refreshRecords continue: setRecords(loadedRecords), setIsLoading(false)
SetLoadedRecords(c) ==
    /\ c.op = "fetchRecords" /\ c.pc = "return"
    /\ records' = c.result
    /\ isLoading' = FALSE
    /\ calls' = calls \ {c}
    /\ entry' = IF entry = NoEntry THEN LoadEffect(NoEntry, Today)
                ELSE ReloadIf(getRecordForDate(records, entry.date) # Undefined
                              \/ getRecordForDate(records', entry.date) # Undefined)
    /\ UNCHANGED <<db, alerts>>
    /\ FrameExcept(AppVars)

\* navigateToDateFromHistory: the diary opens on a date, editable; the load
\* effect runs and the effect on [date] hides the save feedback
SelectDate(date) ==
    /\ entry # NoEntry
    /\ date # entry.date
    /\ entry' = [LoadEffect(entry, date) EXCEPT !.showSaveFeedback = FALSE]
    /\ UNCHANGED <<db, records, isLoading, calls, alerts>>
    /\ FrameExcept(AppVars)

\* the user edits the form, away from its clean snapshot or back to it
EditForm(dirty) ==
    /\ entry # NoEntry
    /\ dirty # entry.dirty
    /\ entry' = [entry EXCEPT !.dirty = dirty]
    /\ UNCHANGED <<db, records, isLoading, calls, alerts>>
    /\ FrameExcept(AppVars)

\* DailyEntry.handleSave (the button shows when dirty and is disabled while
\* the feedback shows) and handleSaveRecord up to its await
HandleSave(uuid) ==
    /\ entry # NoEntry
    /\ isDirty /\ ~entry.showSaveFeedback
    /\ Cardinality(calls) < MaxCalls
    /\ getRecordForDate(records, entry.date) = Undefined => uuid \notin UsedIds
    /\ LET existingRecord == getRecordForDate(records, entry.date)
           rec == [id |-> IF existingRecord # Undefined THEN existingRecord.id ELSE uuid,
                   date |-> entry.date]
       IN  calls' = calls \cup {[op |-> "saveRecord", pc |-> "setDoc", record |-> rec]}
    /\ entry' = [entry EXCEPT !.dirty = FALSE, !.showSaveFeedback = TRUE]
    /\ UNCHANGED <<db, records, isLoading, alerts>>
    /\ FrameExcept(AppVars)

\* setTimeout(() => setShowSaveFeedback(false), 2000)
HideSaveFeedback ==
    /\ entry # NoEntry
    /\ entry.showSaveFeedback
    /\ entry' = [entry EXCEPT !.showSaveFeedback = FALSE]
    /\ UNCHANGED <<db, records, isLoading, calls, alerts>>
    /\ FrameExcept(AppVars)

\* saveRecordToRemote: setDoc stores the record with its lastModified
SaveRecordOk(c) ==
    /\ c.op = "saveRecord" /\ c.pc = "setDoc"
    /\ db' = [db EXCEPT !.records =
                 setDoc(@, c.record.id,
                        [id |-> c.record.id, date |-> c.record.date, lastModified |-> Now])]
    /\ calls' = Replace(c, [c EXCEPT !.pc = "setRecords"])
    /\ UNCHANGED <<records, isLoading, entry, alerts>>
    /\ FrameExcept(AppVars)

\* saveRecordToRemote: setDoc fails, the error is rethrown; handleSaveRecord
\* rejects and DailyEntry.handleSave does not look at the promise
SaveRecordFail(c) ==
    /\ c.op = "saveRecord" /\ c.pc = "setDoc"
    /\ calls' = calls \ {c}
    /\ UNCHANGED <<db, records, isLoading, entry, alerts>>
    /\ FrameExcept(AppVars)

\* handleSaveRecord after the await: setRecords
SetSavedRecord(c) ==
    /\ c.op = "saveRecord" /\ c.pc = "setRecords"
    /\ records' = SaveIntoList(records, c.record)
    /\ calls' = calls \ {c}
    /\ entry' = ReloadIf(c.record.date = entry.date)
    /\ UNCHANGED <<db, isLoading, alerts>>
    /\ FrameExcept(AppVars)

\* DailyEntry.handleDelete and handleDeleteRecord up to its await
HandleDelete ==
    /\ entry # NoEntry
    /\ getRecordForDate(records, entry.date) # Undefined
    /\ Cardinality(calls) < MaxCalls
    /\ calls' = calls \cup {[op |-> "deleteRecord", pc |-> "deleteDoc",
                              id |-> getRecordForDate(records, entry.date).id]}
    /\ UNCHANGED <<db, records, isLoading, entry, alerts>>
    /\ FrameExcept(AppVars)

\* deleteRecordFromRemote: deleteDoc succeeds
DeleteRecordOk(c) ==
    /\ c.op = "deleteRecord" /\ c.pc = "deleteDoc"
    /\ db' = [db EXCEPT !.records = deleteDoc(@, c.id)]
    /\ calls' = Replace(c, [c EXCEPT !.pc = "setRecords"])
    /\ UNCHANGED <<records, isLoading, entry, alerts>>
    /\ FrameExcept(AppVars)

\* deleteRecordFromRemote fails: handleDeleteRecord's catch alerts
DeleteRecordFail(c) ==
    /\ c.op = "deleteRecord" /\ c.pc = "deleteDoc"
    /\ alerts < MaxAlerts
    /\ alerts' = alerts + 1
    /\ calls' = calls \ {c}
    /\ UNCHANGED <<db, records, isLoading, entry>>
    /\ FrameExcept(AppVars)

\* handleDeleteRecord after the await: setRecords(prev => prev.filter(...))
SetDeletedRecord(c) ==
    /\ c.op = "deleteRecord" /\ c.pc = "setRecords"
    /\ records' = SelectSeq(records, LAMBDA r : r.id # c.id)
    /\ calls' = calls \ {c}
    /\ entry' = ReloadIf(getRecordForDate(records', entry.date)
                            # getRecordForDate(records, entry.date))
    /\ UNCHANGED <<db, isLoading, alerts>>
    /\ FrameExcept(AppVars)

AppNext ==
    \/ RefreshRecords
    \/ \E c \in calls : FetchRecordsOk(c)
    \/ \E c \in calls : FetchRecordsFail(c)
    \/ \E c \in calls : SetLoadedRecords(c)
    \/ \E d \in DiaryDates : SelectDate(d)
    \/ \E d \in BOOLEAN : EditForm(d)
    \/ \E u \in Uuids : HandleSave(u)
    \/ HideSaveFeedback
    \/ \E c \in calls : SaveRecordOk(c)
    \/ \E c \in calls : SaveRecordFail(c)
    \/ \E c \in calls : SetSavedRecord(c)
    \/ HandleDelete
    \/ \E c \in calls : DeleteRecordOk(c)
    \/ \E c \in calls : DeleteRecordFail(c)
    \/ \E c \in calls : SetDeletedRecord(c)

SpecApp == AppInit /\ [][AppNext]_vars

\* the dates of a list of records hold no date twice
DistinctDates(recs) ==
    \A i, j \in 1..Len(recs) : recs[i].date = recs[j].date => i = j

\* C15: after any interleaving of saves, deletes and refreshes, no two
\* records of the local list and no two documents of the remote records
\* collection have the same date
C15_OneRecordPerDate ==
    /\ DistinctDates(records)
    /\ \A d1, d2 \in db.records : d1.date = d2.date => d1.id = d2.id

\* a step in which a remote read or write of the records collection fails
RemoteFailure ==
    \E c \in calls : FetchRecordsFail(c) \/ SaveRecordFail(c) \/ DeleteRecordFail(c)

\* C17: every step in which a remote read or write fails shows the user an
\* error, and issues no request again
C17_FailuresSurfaced ==
    [][RemoteFailure => alerts' = alerts + 1 /\ calls' \subseteq calls]_vars

(***************************************************************************)
(* The settings document doc(db, "settings", "global"): fetchSettings,     *)
(* saveSettings and the App's handlers that call them.  A session starts   *)
(* with loadData, whose spinner keeps the user away until it has finished. *)
(***************************************************************************)
DEFAULT_NOTE_PRESETS ==
    <<ChangeLitter, "washFeeder", Medication, "vet", "checkup", "cough",
      "vomit", "lickLips", "lowEnergy", "lowAppetite", "stomachRumble">>

defaultSettings ==
    [targetWeight |-> Dec(50, 1), activityFactor |-> Dec(10, 1),
     defaultEvaporation |-> FZero, notePresets |-> DEFAULT_NOTE_PRESETS,
     litterInterval |-> FOfInt(14), medicationInterval |-> FOfInt(30),
     feederInterval |-> FOfInt(30)]

\* { ...settings, notePresets: newPresets }
WithPresets(data, newPresets) ==
    [f \in DOMAIN data \cup {"notePresets"} |->
        IF f = "notePresets" THEN newPresets ELSE data[f]]

\* mutant of the migration of fetchSettings: the document is returned as stored
MigratePresets_AsStored(data) == data

\* if (!data.notePresets || data.notePresets.length === 0) data.notePresets = DEFAULT_NOTE_PRESETS
MigratePresets(data) ==
    IF "notePresets" \notin DOMAIN data \/ data.notePresets = <<>>
    THEN WithPresets(data, DEFAULT_NOTE_PRESETS)
    ELSE data

\* settings.notePresets || []
presets == IF "notePresets" \in DOMAIN settings THEN settings.notePresets ELSE <<>>

\* a settings document of the time before note presets and reminder intervals
\* (types.ts leaves these fields optional)
legacySettings ==
    [targetWeight |-> Dec(45, 1), activityFactor |-> Dec(10, 1), defaultEvaporation |-> FZero]

\* the settings the user can ask to save: the form's target weight, the first
\* preset removed (removePreset), or the preset "x" added (addPreset)
TargetWeights == {Dec(50, 1), Dec(45, 1)}
NewSettings ==
    {[settings EXCEPT !.targetWeight = w] : w \in TargetWeights \ {settings.targetWeight}}
    \cup (IF presets # <<>>
          THEN {WithPresets(settings, SelectSeq(presets, LAMBDA q : q # presets[1]))}
          ELSE {})
    \cup (IF \E i \in 1..Len(presets) : presets[i] = "x"
          THEN {}
          ELSE {WithPresets(settings, Append(presets, "x"))})

SettingsVars == {"db", "calls", "isLoading", "settings"}

SettingsInit ==
    /\ db \in {[settings |-> Null], [settings |-> legacySettings]}
    /\ settings = Undefined
    /\ isLoading = TRUE
    /\ calls = {[op |-> "fetchSettings", pc |-> "getDoc"]}
    /\ IdleExcept(SettingsVars)

\* fetchSettings: getDoc answers; an existing document is returned after the
\* migration, a missing one is about to be created
GetSettingsOk(c) ==
    /\ c.op = "fetchSettings" /\ c.pc = "getDoc"
    /\ calls' = Replace(c, IF db.settings # Null
                           THEN [op |-> "fetchSettings", pc |-> "return",
                                 result |-> MigratePresets(db.settings)]
                           ELSE [op |-> "fetchSettings", pc |-> "setDoc"])
    /\ UNCHANGED <<db, settings, isLoading>>
    /\ FrameExcept(SettingsVars)

\* fetchSettings: getDoc fails, the catch returns the defaults
GetSettingsFail(c) ==
    /\ c.op = "fetchSettings" /\ c.pc = "getDoc"
    /\ calls' = Replace(c, [op |-> "fetchSettings", pc |-> "return", result |-> defaultSettings])
    /\ UNCHANGED <<db, settings, isLoading>>
    /\ FrameExcept(SettingsVars)

\* fetchSettings: setDoc(docRef, defaultSettings) succeeds
SeedSettingsOk(c) ==
    /\ c.op = "fetchSettings" /\ c.pc = "setDoc"
    /\ db' = [db EXCEPT !.settings = defaultSettings]
    /\ calls' = Replace(c, [op |-> "fetchSettings", pc |-> "return", result |-> defaultSettings])
    /\ UNCHANGED <<settings, isLoading>>
    /\ FrameExcept(SettingsVars)

\* fetchSettings: setDoc(docRef, defaultSettings) fails, the catch returns the defaults
SeedSettingsFail(c) ==
    /\ c.op = "fetchSettings" /\ c.pc = "setDoc"
    /\ calls' = Replace(c, [op |-> "fetchSettings", pc |-> "return", result |-> defaultSettings])
    /\ UNCHANGED <<db, settings, isLoading>>
    /\ FrameExcept(SettingsVars)

\* loadData continues: setSettings(loadedSettings), setIsLoading(false)
SetLoadedSettings(c) ==
    /\ c.op = "fetchSettings" /\ c.pc = "return"
    /\ settings' = c.result
    /\ isLoading' = FALSE
    /\ calls' = calls \ {c}
    /\ UNCHANGED db
    /\ FrameExcept(SettingsVars)

\* handleSaveSettings up to its await
HandleSaveSettings(newSettings) ==
    /\ ~isLoading
    /\ calls = {}
    /\ calls' = {[op |-> "saveSettings", pc |-> "setDoc", settings |-> newSettings]}
    /\ UNCHANGED <<db, settings, isLoading>>
    /\ FrameExcept(SettingsVars)

\* saveSettings: setDoc succeeds
SaveSettingsOk(c) ==
    /\ c.op = "saveSettings" /\ c.pc = "setDoc"
    /\ db' = [db EXCEPT !.settings = c.settings]
    /\ calls' = Replace(c, [c EXCEPT !.pc = "setSettings"])
    /\ UNCHANGED <<settings, isLoading>>
    /\ FrameExcept(SettingsVars)

\* saveSettings: setDoc fails and the error is rethrown
SaveSettingsFail(c) ==
    /\ c.op = "saveSettings" /\ c.pc = "setDoc"
    /\ calls' = calls \ {c}
    /\ UNCHANGED <<db, settings, isLoading>>
    /\ FrameExcept(SettingsVars)

\* handleSaveSettings after the await: setSettings(newSettings)
SetSavedSettings(c) ==
    /\ c.op = "saveSettings" /\ c.pc = "setSettings"
    /\ settings' = c.settings
    /\ calls' = calls \ {c}
    /\ UNCHANGED <<db, isLoading>>
    /\ FrameExcept(SettingsVars)

\* the page is opened again: the App is constructed anew and loadData runs
OpenApp ==
    /\ ~isLoading
    /\ calls = {}
    /\ settings' = Undefined
    /\ isLoading' = TRUE
    /\ calls' = {[op |-> "fetchSettings", pc |-> "getDoc"]}
    /\ UNCHANGED db
    /\ FrameExcept(SettingsVars)

SettingsNext ==
    \/ \E c \in calls : GetSettingsOk(c)
    \/ \E c \in calls : GetSettingsFail(c)
    \/ \E c \in calls : SeedSettingsOk(c)
    \/ \E c \in calls : SeedSettingsFail(c)
    \/ \E c \in calls : SetLoadedSettings(c)
    \/ ~isLoading /\ \E n \in NewSettings : HandleSaveSettings(n)
    \/ \E c \in calls : SaveSettingsOk(c)
    \/ \E c \in calls : SaveSettingsFail(c)
    \/ \E c \in calls : SetSavedSettings(c)
    \/ OpenApp

SpecSettings == SettingsInit /\ [][SettingsNext]_vars

\* a step in which the fetchSettings call c0 returns as c
FetchSettingsReturns(c0, c) ==
    /\ c0 \in calls /\ c0.op = "fetchSettings" /\ c0.pc # "return"
    /\ c \in calls' /\ c.op = "fetchSettings" /\ c.pc = "return"

\* no step deletes the settings document
NoSettingsDeletion == db.settings # Null => db'.settings # Null

\* the stored document, its note presets replaced by the defaults when it has none
StoredOrDefaultPresets(data) ==
    [f \in DOMAIN data \cup {"notePresets"} |->
        IF f # "notePresets" THEN data[f]
        ELSE IF "notePresets" \in DOMAIN data /\ Len(data.notePresets) > 0
             THEN data.notePresets ELSE DEFAULT_NOTE_PRESETS]

\* C16 as claimed: a fetchSettings that finds no document stores the defaults
\* and returns them, every other fetchSettings returns the stored document as
\* last written, and no step deletes the document
C16_Original ==
    [][/\ NoSettingsDeletion
       /\ \A c0 \in calls : \A c \in calls' :
             FetchSettingsReturns(c0, c) =>
                IF db.settings = Null
                THEN db'.settings = defaultSettings /\ c.result = defaultSettings
                ELSE db' = db /\ c.result = db.settings]_vars

\* C16: the settings document is written only by saveSettings (the settings
\* it was given) and by a fetchSettings that found none (the defaults) and is
\* never deleted; a fetchSettings returns the defaults it has just stored, or
\* the stored document with missing or empty note presets replaced by the
\* default presets, or, when its read or its write failed, the defaults
\* while the store stays as it was
C16_SettingsLifecycle ==
    [][/\ NoSettingsDeletion
       /\ db' # db =>
             \/ \E c0 \in calls : /\ c0.op = "saveSettings" /\ c0.pc = "setDoc"
                                  /\ db'.settings = c0.settings
             \/ \E c0 \in calls : /\ c0.op = "fetchSettings" /\ c0.pc = "setDoc"
                                  /\ db'.settings = defaultSettings
       /\ \A c0 \in calls : \A c \in calls' :
             FetchSettingsReturns(c0, c) =>
                \/ /\ db.settings = Null /\ c0.pc = "setDoc"
                   /\ db'.settings = defaultSettings /\ c.result = defaultSettings
                \/ /\ db.settings # Null /\ c0.pc = "getDoc"
                   /\ db' = db /\ c.result = StoredOrDefaultPresets(db.settings)
                \/ db' = db /\ c.result = defaultSettings]_vars

\* a fetchSettings has returned the default presets, and the saved target
\* weight, for a stored document whose list of presets was saved empty
C16_Witness ==
    \E c \in calls :
        /\ c.op = "fetchSettings" /\ c.pc = "return"
        /\ db.settings # Null
        /\ "notePresets" \in DOMAIN db.settings
        /\ db.settings.notePresets = <<>>
        /\ db.settings.targetWeight = Dec(45, 1)
        /\ c.result = [db.settings EXCEPT !.notePresets = DEFAULT_NOTE_PRESETS]

(***************************************************************************)
(* Deleting a food: FoodManager.executeDelete, handleDeleteFood and        *)
(* deleteFoodFromRemote, with the records that reference the catalog and   *)
(* the stats the views compute from them.                                  *)
(***************************************************************************)
\* the catalog at the start: a canned food, the kibble and the two snacks
CatalogFoods == SelectSeq(INITIAL_FOODS, LAMBDA f : f.id \in {"f1", "f3", "f6", "f7"})

\* the stored records: their intakes reference the catalog
CatalogRecords ==
    <<[id |-> "r1", date |-> DateStr(2024, 1, 1),
       foodIntakes |-> <<[foodId |-> "f3", amount |-> Dec(30, 0)],
                         [foodId |-> "f7", amount |-> Dec(25, 1)]>>,
       waterIntakes |-> <<[type |-> "direct", amount1 |-> Dec(205, 1), amount2 |-> FZero]>>],
      [id |-> "r2", date |-> DateStr(2024, 1, 5),
       foodIntakes |-> <<[foodId |-> "f1", amount |-> Dec(30, 0)],
                         [foodId |-> "f6", amount |-> Dec(30, 0)],
                         [foodId |-> "f1", amount |-> Dec(30, 0)]>>,
       waterIntakes |-> <<>>],
      [id |-> "r3", date |-> DateStr(2024, 1, 10),
       foodIntakes |-> <<[foodId |-> "f7", amount |-> Dec(30, 0)]>>,
       waterIntakes |-> <<[type |-> "bowl", amount1 |-> Dec(200, 0), amount2 |-> Dec(50, 0)]>>]>>

Range(seq) == {seq[i] : i \in 1..Len(seq)}

\* mutant of handleDeleteFood's update: every food of the deleted one's category goes
DeleteFoodFromList_WholeType(prev, id) ==
    SelectSeq(prev, LAMBDA f : \A g \in Range(prev) : g.id = id => f.type # g.type)

\* setFoods(prev => prev.filter(f => f.id !== id))
DeleteFoodFromList(prev, id) == SelectSeq(prev, LAMBDA f : f.id # id)

CatalogVars == {"foods", "records", "db", "calls", "alerts", "record", "stats"}

CatalogInit ==
    /\ foods = CatalogFoods
    /\ records = CatalogRecords
    /\ db = [foods |-> Range(CatalogFoods), records |-> Range(CatalogRecords)]
    /\ calls = {}
    /\ alerts = 0
    /\ record = NoValue
    /\ stats = NoStats
    /\ IdleExcept(CatalogVars)

\* FoodManager.executeDelete and handleDeleteFood up to its await
ExecuteDelete(editingId) ==
    /\ calls = {}
    /\ \E f \in Range(foods) : f.id = editingId
    /\ calls' = {[op |-> "deleteFood", pc |-> "deleteDoc", id |-> editingId]}
    /\ UNCHANGED <<foods, records, db, alerts, record, stats>>
    /\ FrameExcept(CatalogVars)

\* deleteFoodFromRemote: deleteDoc(doc(db, "foods", id)) succeeds
DeleteFoodOk(c) ==
    /\ c.op = "deleteFood" /\ c.pc = "deleteDoc"
    /\ db' = [db EXCEPT !.foods = deleteDoc(@, c.id)]
    /\ calls' = Replace(c, [c EXCEPT !.pc = "setFoods"])
    /\ UNCHANGED <<foods, records, alerts, record, stats>>
    /\ FrameExcept(CatalogVars)

\* deleteFoodFromRemote fails: executeDelete's catch alerts
DeleteFoodFail(c) ==
    /\ c.op = "deleteFood" /\ c.pc = "deleteDoc"
    /\ alerts < MaxAlerts
    /\ alerts' = alerts + 1
    /\ calls' = calls \ {c}
    /\ UNCHANGED <<foods, records, db, record, stats>>
    /\ FrameExcept(CatalogVars)

\* handleDeleteFood after the await: setFoods
SetDeletedFood(c) ==
    /\ c.op = "deleteFood" /\ c.pc = "setFoods"
    /\ foods' = DeleteFoodFromList(foods, c.id)
    /\ calls' = calls \ {c}
    /\ UNCHANGED <<records, db, alerts, record, stats>>
    /\ FrameExcept(CatalogVars)

\* a view shows a record: calculateDailyStats(r, foods)
ShowStats(i) ==
    /\ record' = records[i]
    /\ stats' = calculateDailyStats(records[i], foods)
    /\ UNCHANGED <<foods, records, db, calls, alerts>>
    /\ FrameExcept(CatalogVars)

CatalogNext ==
    \/ \E f \in Range(CatalogFoods) : ExecuteDelete(f.id)
    \/ \E c \in calls : DeleteFoodOk(c)
    \/ \E c \in calls : DeleteFoodFail(c)
    \/ \E c \in calls : SetDeletedFood(c)
    \/ \E i \in 1..Len(CatalogRecords) : ShowStats(i)

SpecCatalog == CatalogInit /\ [][CatalogNext]_vars

\* seq without its k-th entry
WithoutIndex(seq, k) == SubSeq(seq, 1, k - 1) \o SubSeq(seq, k + 1, Len(seq))

\* the record with the intakes left out whose food the catalog does not hold
WithoutOrphans(rec, fs) ==
    [rec EXCEPT !.foodIntakes =
        SelectSeq(@, LAMBDA intake : \E f \in Range(fs) : f.id = intake.foodId)]

\* C18: a step never changes a record, local or stored; a step that changes
\* the stored catalog or the local one is a food deletion that takes out the
\* entry of the deleted id and nothing else; and the stats shown for a
\* record are those of the full catalog for that record without the intakes
\* whose food has been deleted
C18_DeleteFoodFrame ==
    [][/\ records' = records /\ db'.records = db.records
       /\ db'.foods # db.foods =>
             \E c \in calls : /\ c.op = "deleteFood"
                              /\ db.foods \ db'.foods = {f \in db.foods : f.id = c.id}
                              /\ db'.foods \subseteq db.foods
       /\ foods' # foods =>
             \E c \in calls : \E k \in 1..Len(foods) :
                /\ c.op = "deleteFood" /\ foods[k].id = c.id
                /\ foods' = WithoutIndex(foods, k)
       /\ stats' # stats =>
             /\ record' \in Range(records)
             /\ stats' = calculateDailyStats(WithoutOrphans(record', foods), CatalogFoods)]_vars

\* the stats of record r1 after the snack f7 it references was deleted: the
\* kibble alone counts, and the record still holds both intakes
C18_Witness ==
    /\ stats # NoStats
    /\ record.id = "r1" /\ record \in Range(records)
    /\ Len(record.foodIntakes) = 2 /\ record.foodIntakes[2].foodId = "f7"
    /\ ~\E f \in Range(foods) : f.id = "f7"
    /\ ~\E f \in db.foods : f.id = "f7"
    /\ stats.totalCalories = Dec(11685, 2)
    /\ stats.sideCalories = FZero
    /\ stats.foodWater = Dec(24, 1)

(***************************************************************************)
(* The food part of DailyEntry's form, and FoodManager's form that sets    *)
(* the default food.  A text input's value is a sequence of characters.    *)
(***************************************************************************)
NaN == [nan |-> TRUE]

DigitChars == <<"0", "1", "2", "3", "4", "5", "6", "7", "8", "9">>
IsDigit(ch) == \E d \in 1..10 : DigitChars[d] = ch
DigitVal(ch) == (CHOOSE d \in 1..10 : DigitChars[d] = ch) - 1

\* the longest prefix of digits of str
RECURSIVE DigitPrefix(_)
DigitPrefix(str) ==
    IF str # <<>> /\ IsDigit(Head(str)) THEN <<Head(str)>> \o DigitPrefix(Tail(str)) ELSE <<>>

RECURSIVE DigitsVal(_, _)
DigitsVal(acc, digits) ==
    IF digits = <<>> THEN acc ELSE DigitsVal(acc * 10 + DigitVal(Head(digits)), Tail(digits))

\* parseFloat: an optional sign, digits, an optional fraction, what follows is
\* ignored; NaN when no digit is found
parseFloat(str) ==
    LET neg == str # <<>> /\ Head(str) = "-"
        s1 == IF neg THEN Tail(str) ELSE str
        int == DigitPrefix(s1)
        s2 == SubSeq(s1, Len(int) + 1, Len(s1))
        frac == IF s2 # <<>> /\ Head(s2) = "." THEN DigitPrefix(Tail(s2)) ELSE <<>>
        n == DigitsVal(DigitsVal(0, int), frac)
    IN  IF int = <<>> /\ frac = <<>> THEN NaN
        ELSE Dec(IF neg THEN -n ELSE n, Len(frac))

isNaN(x) == x = NaN

\* x || 0 for a number or undefined
OrZero(x) == IF x = Undefined \/ isNaN(x) \/ x = FZero THEN FZero ELSE x

\* the values the amount input of the diary and the default amount input of
\* FoodManager are given
AmountInputs == {<<>>, <<"2", ".", "5">>, <<"0">>, <<"-", "5">>}
DefaultAmountInputs == {<<>>, <<"-", "5">>}

\* the catalog the diary works with: the seeded default food and a snack
DiaryFoods == SelectSeq(INITIAL_FOODS, LAMBDA f : f.id \in {"f3", "f7"})

\* foods.find(f => f.isDefault)
RECURSIVE findDefault(_)
findDefault(fs) ==
    IF fs = <<>> THEN Undefined
    ELSE IF "isDefault" \in DOMAIN Head(fs) /\ Head(fs).isDefault THEN Head(fs)
    ELSE findDefault(Tail(fs))

\* mutant of the pre-fill: without a positive default amount nothing is pre-filled
PrefillIntakes_PositiveOnly(fs, uuid) ==
    LET defaultFood == findDefault(fs)
    IN  IF defaultFood # Undefined /\ "defaultAmount" \in DOMAIN defaultFood
           /\ FLt(FZero, defaultFood.defaultAmount)
        THEN <<[id |-> uuid, foodId |-> defaultFood.id, amount |-> defaultFood.defaultAmount]>>
        ELSE <<>>

\* the load effect without an existing record: the default food is pre-filled
PrefillIntakes(fs, uuid) ==
    LET defaultFood == findDefault(fs)
    IN  IF defaultFood # Undefined
        THEN <<[id |-> uuid, foodId |-> defaultFood.id,
                amount |-> OrZero(IF "defaultAmount" \in DOMAIN defaultFood
                                  THEN defaultFood.defaultAmount ELSE Undefined)]>>
        ELSE <<>>

\* FoodManager.handleSave on the edit form of food: newFood
NewFood(food, isDefaultInput, defaultAmountInput) ==
    LET base == [id |-> food.id, name |-> food.name, type |-> food.type,
                 caloriesPerGram |-> food.caloriesPerGram,
                 waterContentPercent |-> food.waterContentPercent,
                 order |-> food.order, isDefault |-> isDefaultInput]
    IN  IF isDefaultInput /\ defaultAmountInput # <<>>
        THEN [f \in DOMAIN base \cup {"defaultAmount"} |->
                 IF f = "defaultAmount" THEN parseFloat(defaultAmountInput) ELSE base[f]]
        ELSE base

\* handleSaveFood's setFoods: the previous default is unset, newFood replaces its entry
SaveFoodIntoList(prev, newFood) ==
    [i \in 1..Len(prev) |->
        IF prev[i].id = newFood.id THEN newFood
        ELSE IF newFood.isDefault /\ prev[i] = findDefault(prev)
             THEN [prev[i] EXCEPT !.isDefault = FALSE]
             ELSE prev[i]]

DiaryVars == {"foods", "entry", "record"}

FormIds == {entry.foodIntakes[i].id : i \in 1..Len(entry.foodIntakes)}

\* of the fields of the form the food intakes are kept
Snapshot(e) == [foodIntakes |-> e.foodIntakes]

\* DailyEntry's load effect for a date without record; editingFoodId is the
\* set of the id it holds, empty for null
NewDayForm(fs, uuid) ==
    LET newFoodIntakes == PrefillIntakes(fs, uuid)
    IN  [foodIntakes |-> newFoodIntakes, editingFoodId |-> {},
         clean |-> [foodIntakes |-> newFoodIntakes]]

DiaryInit ==
    /\ foods = DiaryFoods
    /\ entry \in {NewDayForm(DiaryFoods, u) : u \in Uuids}
    /\ record = NoValue
    /\ IdleExcept(DiaryVars)

\* FoodManager: a food is edited and saved (handleSave, handleSaveFood)
SaveFood(i, isDefaultInput, defaultAmountInput) ==
    /\ foods' = SaveFoodIntoList(foods, NewFood(foods[i], isDefaultInput, defaultAmountInput))
    /\ UNCHANGED <<entry, record>>
    /\ FrameExcept(DiaryVars)

\* the diary moves to a date without record: the load effect runs; record is
\* the record the diary's date has been saved with
OpenNewDay(uuid) ==
    /\ entry' = NewDayForm(foods, uuid)
    /\ record' = NoValue
    /\ UNCHANGED foods
    /\ FrameExcept(DiaryVars)

\* handleEditFood(intake)
HandleEditFood(i) ==
    /\ entry.editingFoodId # {entry.foodIntakes[i].id}
    /\ entry' = [entry EXCEPT !.editingFoodId = {entry.foodIntakes[i].id}]
    /\ UNCHANGED <<foods, record>>
    /\ FrameExcept(DiaryVars)

\* handleAddOrUpdateFood with the food picker at selectedFoodId and the
\* amount input at foodAmount
HandleAddOrUpdateFood(selectedFoodId, foodAmount, uuid) ==
    /\ foodAmount # <<>>
    /\ LET amount == parseFloat(foodAmount)
       IN  /\ ~(isNaN(amount) \/ FLe(amount, FZero))
           /\ IF entry.editingFoodId # {}
              THEN entry' = [entry EXCEPT
                      !.foodIntakes = [k \in 1..Len(@) |->
                          IF @[k].id \in entry.editingFoodId
                          THEN [@[k] EXCEPT !.foodId = selectedFoodId, !.amount = amount]
                          ELSE @[k]],
                      !.editingFoodId = {}]
              ELSE /\ uuid \notin FormIds
                   /\ entry' = [entry EXCEPT
                         !.foodIntakes = Append(@, [id |-> uuid, foodId |-> selectedFoodId,
                                                    amount |-> amount])]
    /\ UNCHANGED <<foods, record>>
    /\ FrameExcept(DiaryVars)

\* removeFood(id)
RemoveFood(id) ==
    /\ id \in FormIds
    /\ entry' = [entry EXCEPT
                    !.foodIntakes = SelectSeq(@, LAMBDA intake : intake.id # id),
                    !.editingFoodId = @ \ {id}]
    /\ UNCHANGED <<foods, record>>
    /\ FrameExcept(DiaryVars)

\* handleSave: the save button shows while the form differs from its clean
\* snapshot; the record is handed to onSave and the form becomes clean
SaveForm ==
    /\ Snapshot(entry) # entry.clean
    /\ record' = [foodIntakes |-> entry.foodIntakes]
    /\ entry' = [entry EXCEPT !.clean = Snapshot(entry)]
    /\ UNCHANGED foods
    /\ FrameExcept(DiaryVars)

DiaryNext ==
    \/ \E i \in 1..Len(DiaryFoods) : \E b \in BOOLEAN : \E a \in DefaultAmountInputs :
          SaveFood(i, b, a)
    \/ \E u \in Uuids : OpenNewDay(u)
    \/ \E i \in 1..Len(entry.foodIntakes) : HandleEditFood(i)
    \/ \E f \in Range(DiaryFoods) : \E a \in AmountInputs : \E u \in Uuids :
          HandleAddOrUpdateFood(f.id, a, u)
    \/ \E u \in Uuids : RemoveFood(u)
    \/ SaveForm

SpecDiary == DiaryInit /\ [][DiaryNext]_vars

\* C19: every food intake of a record handed to onSave has a positive amount
C19_PositiveAmounts ==
    record # NoValue =>
        \A i \in 1..Len(record.foodIntakes) : FLt(FZero, record.foodIntakes[i].amount)

(***************************************************************************)
(* The backup payload of HistoryView.handleCloudUpload.  Number.toFixed    *)
(* and the division are computed on the exact value of the number.         *)
(***************************************************************************)
RECURSIVE BigDivDigitFrom(_, _, _)
\* the largest d <= qhat with b * d <= cur
BigDivDigitFrom(cur, b, qhat) ==
    IF BigCmp(BigMulSmall(b, qhat), cur) <= 0 THEN qhat
    ELSE BigDivDigitFrom(cur, b, qhat - 1)

\* the largest d with b * d <= cur, for cur < b * Base: the estimate from the
\* two highest limbs of cur and the highest of b is d or more
BigDivEstimate(cur, b) ==
    (Limb(cur, Len(b) + 1) * Base + Limb(cur, Len(b))) \div b[Len(b)]

BigDivDigit(cur, b) ==
    IF BigDivEstimate(cur, b) >= Base THEN BigDivDigitFrom(cur, b, Base - 1)
    ELSE BigDivDigitFrom(cur, b, BigDivEstimate(cur, b))

\* F(v), with v computed once, before F
Bind(v, F(_)) == CHOOSE y \in {F(x) : x \in {v}} : TRUE

RECURSIVE BigDivModAt(_, _, _)
\* long division: quotient and remainder of the limbs i and higher of a by b,
\* from those of the limbs above i
BigDivModAt(a, b, i) ==
    IF i > Len(a) THEN [q |-> <<>>, r |-> <<>>]
    ELSE Bind(BigDivModAt(a, b, i + 1), LAMBDA hi :
         Bind(BigTrim(<<a[i]>> \o hi.r), LAMBDA cur :
         Bind(BigDivDigit(cur, b), LAMBDA d :
              [q |-> <<d>> \o hi.q, r |-> BigSub(cur, BigMulSmall(b, d))])))

\* a and b are scaled by 2^k, which makes the highest limb of b Base / 2 or
\* more: the quotient is the same, the remainder is scaled back
BigDivModScaled(a, b, k) ==
    Bind(BigDivModAt(a, b, 1), LAMBDA d : [q |-> BigTrim(d.q), r |-> BigShiftR(d.r, k)])

\* quotient q and remainder r of a by b > 0
BigDivMod(a, b) ==
    Bind((LimbBits - (BigBitLen(b) % LimbBits)) % LimbBits, LAMBDA k :
    Bind(BigShiftL(a, k), LAMBDA an :
    Bind(BigShiftL(b, k), LAMBDA bn : BigDivModScaled(an, bn, k))))

\* the quotient d.q with a sticky bit for the remainder d.r, rounded
FDivRound(s, d, e) ==
    IF d.r = <<>> THEN FRound(s, BigMulSmall(d.q, 2), e)
    ELSE FRound(s, BigAdd(BigMulSmall(d.q, 2), <<1>>), e)

\* the division of the mantissas, am shifted left by sh > 0 bits
FDivBy(s, am, bm, sh, e) ==
    Bind(BigDivMod(BigShiftL(am, sh), bm), LAMBDA d : FDivRound(s, d, e - sh - 1))

\* a / b for b # 0: the quotient to Prec + 3 bits or more, then rounded
FDivOf(a, b) ==
    IF a.m = <<>> \/ b.m = <<>> THEN FZero
    ELSE FDivBy((a.s + b.s) % 2, a.m, b.m,
                Prec + 3 + BigBitLen(b.m) - BigBitLen(a.m), a.e - b.e)

FDiv(a, b) == Bind(a, LAMBDA x : Bind(b, LAMBDA y : FDivOf(x, y)))

RECURSIVE BigToNat(_)
BigToNat(a) == IF a = <<>> THEN 0 ELSE a[1] + Base * BigToNat(Tail(a))

RECURSIVE NatToString(_)
\* the decimal digits of n
NatToString(n) ==
    IF n < 10 THEN <<DigitChars[n + 1]>>
    ELSE NatToString(n \div 10) \o <<DigitChars[(n % 10) + 1]>>

\* the integer n nearest to |x| * 10, the larger one of two
NearestTenths(x) ==
    IF x.m = <<>> THEN 0
    ELSE IF x.e >= 0 THEN BigToNat(BigShiftL(BigMulSmall(x.m, 10), x.e))
    ELSE BigToNat(BigShiftR(BigAdd(BigMulSmall(x.m, 20), BigShiftL(<<1>>, -x.e)), 1 - x.e))

\* the integer part of |x| * 10
TruncatedTenths(x) ==
    IF x.m = <<>> THEN 0
    ELSE IF x.e >= 0 THEN BigToNat(BigShiftL(BigMulSmall(x.m, 10), x.e))
    ELSE BigToNat(BigShiftR(BigMulSmall(x.m, 10), -x.e))

\* the sign, the integer digits, the point and the decimal of n tenths
FixedDigits(s, n) ==
    (IF s = 1 THEN <<"-">> ELSE <<>>)
    \o NatToString(n \div 10) \o <<".">> \o NatToString(n % 10)

\* mutant of toFixed(1): the digits after the first decimal are cut off
toFixed1_Truncate(x) ==
    Bind(x, LAMBDA v : Bind(TruncatedTenths(v), LAMBDA n : FixedDigits(v.s, n)))

\* x.toFixed(1)
toFixed1(x) ==
    Bind(x, LAMBDA v : Bind(NearestTenths(v), LAMBDA n : FixedDigits(v.s, n)))

\* the separator of the snack names
IdeographicComma == "<U+3001>"

RECURSIVE join(_, _)
\* arr.join(sep), a text being the sequence of its pieces
join(arr, sep) ==
    IF arr = <<>> THEN <<>>
    ELSE IF Len(arr) = 1 THEN <<arr[1]>>
    ELSE <<arr[1], sep>> \o join(Tail(arr), sep)

RECURSIVE SnackNames(_, _, _)
\* the Set snackNames after the forEach over the intakes, in insertion order
SnackNames(names, intakes, fs) ==
    IF intakes = <<>> THEN names
    ELSE LET f == find(fs, Head(intakes).foodId)
             add == f # Undefined /\ (f.type = "snack" \/ f.type = "sideDish")
                    /\ ~\E i \in 1..Len(names) : names[i] = f.name
         IN  SnackNames(IF add THEN Append(names, f.name) ELSE names, Tail(intakes), fs)

\* ratio: the share of the snack calories, a percentage to one decimal
SnackRatio(sideCals, totalCals) ==
    IF FLt(FZero, totalCals)
    THEN toFixed1(FMul(FDiv(sideCals, totalCals), FOfInt(100)))
    ELSE <<"0">>

\* snackInfoStr
SnackInfo(ratio, namesStr) ==
    IF namesStr # <<>> THEN ratio \o <<"%", ", ">> \o namesStr
    ELSE ratio \o <<"%">>

\* one entry of the payload, st being the stats of the record
PayloadEntryOf(r, fs, st) ==
    [date |-> r.date,
     weight |-> IF FLt(FZero, r.weight) THEN r.weight ELSE <<>>,
     totalCalories |-> parseFloat(toFixed1(st.totalCalories)),
     snackInfo |-> SnackInfo(SnackRatio(st.sideCalories, st.totalCalories),
                             join(IF "foodIntakes" \in DOMAIN r
                                  THEN SnackNames(<<>>, r.foodIntakes, fs)
                                  ELSE <<>>, IdeographicComma)),
     totalWater |-> parseFloat(toFixed1(st.totalWater)),
     urineSize |-> r.urineSize,
     stoolStatus |-> r.stoolStatus,
     notes |-> r.notes]

PayloadEntry(r, fs) ==
    Bind(r, LAMBDA rec :
    Bind(calculateDailyStats(rec, fs), LAMBDA st : PayloadEntryOf(rec, fs, st)))

\* records.filter(r => r.date >= backupStartDate && r.date <= backupEndDate)
InRange(rs, startDate, endDate) ==
    SelectSeq(rs, LAMBDA r : /\ localeCompare(r.date, startDate) >= 0
                             /\ localeCompare(r.date, endDate) <= 0)

\* the records of the range that were never backed up or were modified since
pendingBackupRecords ==
    SelectSeq(InRange(records, backupStartDate, backupEndDate),
              LAMBDA r : \/ "lastBackupTime" \notin DOMAIN r
                         \/ (IF "lastModified" \in DOMAIN r THEN r.lastModified ELSE 0)
                            > r.lastBackupTime)

\* the records the history holds
UploadRecordChoices ==
    {[id |-> "u1", date |-> DateStr(2024, 1, 5), weight |-> Dec(45, 1),
      foodIntakes |-> <<[foodId |-> "f3", amount |-> Dec(30, 0)],
                        [foodId |-> "f7", amount |-> Dec(25, 1)],
                        [foodId |-> "f6", amount |-> Dec(30, 0)],
                        [foodId |-> "f7", amount |-> Dec(30, 0)]>>,
      waterIntakes |-> <<[type |-> "direct", amount1 |-> Dec(205, 1), amount2 |-> FZero]>>,
      urineSize |-> Str("halfFist"), stoolStatus |-> "normal", notes |-> <<ChangeLitter>>],
     [id |-> "u2", date |-> DateStr(2024, 1, 1), weight |-> FZero,
      foodIntakes |-> <<[foodId |-> "f3", amount |-> Dec(30, 0)]>>,
      waterIntakes |-> <<[type |-> "bowl", amount1 |-> Dec(200, 0), amount2 |-> Dec(50, 0)]>>,
      urineSize |-> Str("oneFist"), stoolStatus |-> "none", notes |-> <<>>],
     [id |-> "u3", date |-> DateStr(2024, 1, 10), weight |-> Dec(39, 1),
      foodIntakes |-> <<[foodId |-> "f0", amount |-> Dec(30, 0)],
                        [foodId |-> "f7", amount |-> Dec(25, 1)]>>,
      waterIntakes |-> <<[type |-> "evaporation", amount1 |-> Dec(30, 0), amount2 |-> FZero]>>,
      urineSize |-> Str("halfFist"), stoolStatus |-> "normal", notes |-> <<>>],
     [id |-> "u4", date |-> DateStr(2024, 2, 28), weight |-> Dec(42, 1),
      foodIntakes |-> <<>>, waterIntakes |-> <<>>,
      urineSize |-> Str("huge"), stoolStatus |-> "loose", notes |-> <<Medication>>]}

UploadRecordLists ==
    {rs \in SeqsUpTo(UploadRecordChoices, MaxRecords) :
        \A i, j \in 1..Len(rs) : i # j => rs[i] # rs[j]}

\* the dates the two date inputs of the backup dialog are set to
BackupDates == {DateStr(2024, 1, 1), Today, DateStr(2024, 2, 28)}

\* isUploading: true from the click until the request is over
isUploading == payload # NoValue

UploadVars == {"foods", "records", "backupStartDate", "backupEndDate", "payload", "alerts"}

\* the range starts as the first day of the month to today
UploadInit ==
    /\ foods \in Catalogs
    /\ records \in UploadRecordLists
    /\ backupStartDate = DateStr(2024, 1, 1)
    /\ backupEndDate = Today
    /\ payload = NoValue
    /\ alerts = 0
    /\ IdleExcept(UploadVars)

\* the start date input, disabled while uploading
SetBackupStartDate(value) ==
    /\ ~isUploading
    /\ backupStartDate' = value
    /\ UNCHANGED <<foods, records, backupEndDate, payload, alerts>>
    /\ FrameExcept(UploadVars)

\* the end date input, disabled while uploading
SetBackupEndDate(value) ==
    /\ ~isUploading
    /\ backupEndDate' = value
    /\ UNCHANGED <<foods, records, backupStartDate, payload, alerts>>
    /\ FrameExcept(UploadVars)

\* the upload button, disabled while uploading or when nothing is pending:
\* handleCloudUpload up to its fetch; no record in the range is an alert
HandleCloudUpload ==
    /\ ~isUploading
    /\ pendingBackupRecords # <<>>
    /\ LET filtered == sortByDate(InRange(records, backupStartDate, backupEndDate))
       IN  IF filtered = <<>>
           THEN /\ alerts < MaxAlerts
                /\ alerts' = alerts + 1
                /\ UNCHANGED payload
           ELSE /\ payload' = [body |-> [i \in 1..Len(filtered) |->
                                          PayloadEntry(filtered[i], foods)]]
                /\ UNCHANGED alerts
    /\ UNCHANGED <<foods, records, backupStartDate, backupEndDate>>
    /\ FrameExcept(UploadVars)

UploadNext ==
    \/ \E value \in BackupDates : SetBackupStartDate(value)
    \/ \E value \in BackupDates : SetBackupEndDate(value)
    \/ HandleCloudUpload

SpecUpload == UploadInit /\ [][UploadNext]_vars

(***************************************************************************)
(* Properties of the backup payload, checked under SpecUpload.  While      *)
(* isUploading the range is the one the payload was built for: the date    *)
(* inputs are disabled.                                                    *)
(***************************************************************************)
\* n is |x| * 10 to the nearest integer: | |x| * 10 - n | <= 1/2
IsNearestTenths(x, n) ==
    IF x.m = <<>> THEN n = 0
    ELSE IF x.e >= 0 THEN BigOfNat(n) = BigShiftL(BigMulSmall(x.m, 10), x.e)
    ELSE /\ BigCmp(BigMulSmall(x.m, 20),
                   BigShiftL(BigOfNat(2 * n + 1), -x.e)) <= 0
         /\ BigCmp(BigAdd(BigMulSmall(x.m, 20), BigShiftL(<<1>>, -x.e)),
                   BigShiftL(BigOfNat(2 * n), -x.e)) >= 0

TenthsOf(x) ==
    {n \in {TruncatedTenths(x), TruncatedTenths(x) + 1} : IsNearestTenths(x, n)}

\* the numbers with one decimal that x rounds to
RoundedToOneDecimal(x) == {Dec(IF x.s = 1 THEN -n ELSE n, 1) : n \in TenthsOf(x)}

\* the texts with one decimal that x rounds to
TextToOneDecimal(x) == {FixedDigits(x.s, n) : n \in TenthsOf(x)}

\* sideCalories / totalCalories * 100 to one decimal
RatioTexts(st) ==
    TextToOneDecimal(FMul(FDiv(st.sideCalories, st.totalCalories), FOfInt(100)))

\* the intakes of r that refer to a food of the snack category, the legacy
\* side dish category included
SnackIntakes(r) ==
    {i \in 1..Len(r.foodIntakes) :
        /\ find(foods, r.foodIntakes[i].foodId) # Undefined
        /\ find(foods, r.foodIntakes[i].foodId).type \in {"snack", "sideDish"}}

SnackNameAt(r, i) == find(foods, r.foodIntakes[i].foodId).name

FirstIntakeOf(r, name) ==
    CHOOSE i \in SnackIntakes(r) :
        /\ SnackNameAt(r, i) = name
        /\ \A j \in SnackIntakes(r) : SnackNameAt(r, j) = name => i <= j

\* names are the distinct names of the snacks r refers to, in the order r
\* first refers to them
IsSnackNames(names, r) ==
    /\ \A a, b \in 1..Len(names) : a # b => names[a] # names[b]
    /\ {names[a] : a \in 1..Len(names)} = {SnackNameAt(r, i) : i \in SnackIntakes(r)}
    /\ \A a, b \in 1..Len(names) :
           a < b => FirstIntakeOf(r, names[a]) < FirstIntakeOf(r, names[b])

\* rest is what follows "%": nothing without snacks, else ", " and the names
\* with '、' between them
IsNamesPart(rest, r) ==
    IF SnackIntakes(r) = {} THEN rest = <<>>
    ELSE /\ rest # <<>>
         /\ Len(rest) % 2 = 0
         /\ rest[1] = ", "
         /\ \A j \in 1..((Len(rest) \div 2) - 1) : rest[2 * j + 1] = IdeographicComma
         /\ IsSnackNames([j \in 1..(Len(rest) \div 2) |-> rest[2 * j]], r)

\* info is "<ratio>%" or "<ratio>%, <names>" with a ratio of ratios
IsSnackInfo(info, ratios, r) ==
    \E k \in 1..Len(info) :
        /\ info[k] = "%"
        /\ SubSeq(info, 1, k - 1) \in ratios
        /\ IsNamesPart(SubSeq(info, k + 1, Len(info)), r)

RangeIndices ==
    {i \in 1..Len(records) : /\ localeCompare(records[i].date, backupStartDate) >= 0
                             /\ localeCompare(records[i].date, backupEndDate) <= 0}

\* the payload has one entry for each record of the range, in date order
OneEntryPerRecord(IsEntryOf(_, _)) ==
    /\ Len(payload.body) = Cardinality(RangeIndices)
    /\ \A k \in 1..(Len(payload.body) - 1) :
           localeCompare(payload.body[k].date, payload.body[k + 1].date) <= 0
    /\ \A i \in RangeIndices :
           \E k \in 1..Len(payload.body) :
               /\ payload.body[k].date = records[i].date
               /\ IsEntryOf(payload.body[k], records[i])

\* the entry p carries the rounded totals of st and a snackInfo of ratios
IsEntry(p, r, st, ratios) ==
    /\ p.totalCalories \in RoundedToOneDecimal(st.totalCalories)
    /\ p.totalWater \in RoundedToOneDecimal(st.totalWater)
    /\ IsSnackInfo(p.snackInfo, ratios, r)

\* C20, as stated: the ratio is "0" when totalCalories is 0, and else
\* sideCalories / totalCalories * 100 to one decimal
C20_Original ==
    isUploading =>
        OneEntryPerRecord(LAMBDA p, r :
            Bind(calculateDailyStats(r, foods), LAMBDA st :
                IsEntry(p, r, st, IF st.totalCalories = FZero THEN {<<"0">>}
                                  ELSE RatioTexts(st))))

\* C20, amended: the payload has one entry for each record of the range, in
\* date order, with totalCalories and totalWater of calculateDailyStats
\* rounded to one decimal and a snackInfo "<ratio>%, <names>", or "<ratio>%"
\* without snacks; the ratio is sideCalories / totalCalories * 100 to one
\* decimal when totalCalories is greater than 0 and "0" otherwise
C20_BackupPayload ==
    isUploading =>
        OneEntryPerRecord(LAMBDA p, r :
            Bind(calculateDailyStats(r, foods), LAMBDA st :
                IsEntry(p, r, st, IF FLt(FZero, st.totalCalories) THEN RatioTexts(st)
                                  ELSE {<<"0">>})))

\* C20: a payload with a negative total ("0%"), a total that rounds up (2.975
\* to 3) and a ratio with two snack names
C20_Witness ==
    /\ isUploading
    /\ \E k \in 1..Len(payload.body) :
           /\ payload.body[k].totalCalories = Dec(-30, 0)
           /\ payload.body[k].snackInfo = <<"0", "%">>
    /\ \E k \in 1..Len(payload.body) :
           /\ payload.body[k].totalCalories = Dec(3, 0)
           /\ payload.body[k].snackInfo = <<"1", "0", "0", ".", "0", "%", ", ", "chicken breast">>
    /\ \E k \in 1..Len(payload.body) :
           payload.body[k].snackInfo = <<"1", "4", "3", ".", "7", "%", ", ", "chicken breast",
                                         IdeographicComma, "relax treat">>

(***************************************************************************)
(* The diary behind App's navigation: App keeps selectedDate,              *)
(* forceEditMode and currentView and renders DailyEntry only while         *)
(* currentView is 'record', with readOnly = isReadOnly.  The form of the   *)
(* mounted DailyEntry is `entry` (NoValue while it is not mounted); its    *)
(* ids editingFoodId and editingWaterId are the set of the id they hold,   *)
(* empty for null; `calls` are the calls of onSave and onDelete made, whose  *)
(* continuations in App are not part of this specification.                *)
(***************************************************************************)
MaxFormItems == 1

\* Number.prototype.toString of a weight of at most one decimal
numberToString(x) ==
    Bind(NearestTenths(x), LAMBDA n :
        IF n % 10 = 0 THEN NatToString(n \div 10) ELSE FixedDigits(x.s, n))

\* waterIntakes.some(i => i.type === 'evaporation')
hasEvaporation(intakes) == \E i \in 1..Len(intakes) : intakes[i].type = "evaporation"

\* the snapshot isDirty and cleanStateJson are made of
FormSnapshot(e) ==
    [weight |-> e.weight, foodIntakes |-> e.foodIntakes, waterIntakes |-> e.waterIntakes,
     urineSize |-> e.urineSize, stoolStatus |-> e.stoolStatus, notes |-> e.notes]

\* existingRecord.waterIntakes || [], and [] without a record
StoredWater(existingRecord) ==
    IF existingRecord # Undefined /\ "waterIntakes" \in DOMAIN existingRecord
    THEN existingRecord.waterIntakes ELSE <<>>

\* mutant of the load effect: no evaporation entry is added
LoadedWater_AsStored(existingRecord, defaultEvaporation, uuid) ==
    StoredWater(existingRecord)

\* the load effect's newWaterIntakes: an evaporation entry is added when the
\* record has none, with the default of the settings for a new day only
LoadedWater(existingRecord, defaultEvaporation, uuid) ==
    LET newWaterIntakes == StoredWater(existingRecord)
    IN  IF hasEvaporation(newWaterIntakes) THEN newWaterIntakes
        ELSE Append(newWaterIntakes,
                    [id |-> uuid, type |-> "evaporation",
                     amount1 |-> IF existingRecord # Undefined THEN FZero
                                 ELSE defaultEvaporation,
                     amount2 |-> FZero])

\* the values the load effect sets the six fields of the form to
LoadedFields(existingRecord, fs, defaultEvaporation, uFood, uWater) ==
    IF existingRecord # Undefined
    THEN [weight |-> IF FLt(FZero, existingRecord.weight)
                     THEN numberToString(existingRecord.weight) ELSE <<>>,
          foodIntakes |-> IF "foodIntakes" \in DOMAIN existingRecord
                          THEN existingRecord.foodIntakes ELSE <<>>,
          waterIntakes |-> LoadedWater(existingRecord, defaultEvaporation, uWater),
          urineSize |-> existingRecord.urineSize,
          stoolStatus |-> existingRecord.stoolStatus,
          notes |-> existingRecord.notes]
    ELSE [weight |-> <<>>,
          foodIntakes |-> PrefillIntakes(fs, uFood),
          waterIntakes |-> LoadedWater(existingRecord, defaultEvaporation, uWater),
          urineSize |-> Str("halfFist"),
          stoolStatus |-> "normal",
          notes |-> <<>>]

\* the state of DailyEntry after the load effect has run
WithClean(fields, feedback) ==
    [weight |-> fields.weight, foodIntakes |-> fields.foodIntakes,
     waterIntakes |-> fields.waterIntakes, urineSize |-> fields.urineSize,
     stoolStatus |-> fields.stoolStatus, notes |-> fields.notes,
     editingFoodId |-> {}, editingWaterId |-> {},
     clean |-> fields, showSaveFeedback |-> feedback]

LoadDay(existingRecord, fs, defaultEvaporation, uFood, uWater, feedback) ==
    WithClean(LoadedFields(existingRecord, fs, defaultEvaporation, uFood, uWater), feedback)

\* isDirty
formIsDirty(e) == FormSnapshot(e) # e.clean

\* { ...item, ...data }
Spread(item, data) ==
    [f \in DOMAIN item \cup DOMAIN data |-> IF f \in DOMAIN data THEN data[f] ELSE item[f]]

\* toggleNote(note), the notes being the list currentNotes
toggleNote(readOnly, e, note) ==
    IF readOnly THEN e
    ELSE IF note \in Range(e.notes)
         THEN [e EXCEPT !.notes = SelectSeq(@, LAMBDA n : n # note)]
         ELSE [e EXCEPT !.notes = Append(@, note)]

\* handleAddOrUpdateFood
handleAddOrUpdateFood(readOnly, e, selectedFoodId, foodAmount, uuid) ==
    IF readOnly THEN e
    ELSE IF selectedFoodId = "" \/ foodAmount = <<>> THEN e
    ELSE IF isNaN(parseFloat(foodAmount)) THEN e
    ELSE IF FLe(parseFloat(foodAmount), FZero) THEN e
    ELSE IF e.editingFoodId # {}
         THEN [e EXCEPT !.foodIntakes =
                           [i \in 1..Len(@) |->
                               IF @[i].id \in e.editingFoodId
                               THEN Spread(@[i], [foodId |-> selectedFoodId,
                                                  amount |-> parseFloat(foodAmount)])
                               ELSE @[i]],
                        !.editingFoodId = {}]
         ELSE [e EXCEPT !.foodIntakes =
                           Append(@, [id |-> uuid, foodId |-> selectedFoodId,
                                      amount |-> parseFloat(foodAmount)])]

\* handleEditFood(intake)
handleEditFood(readOnly, e, intake) ==
    IF readOnly THEN e ELSE [e EXCEPT !.editingFoodId = {intake.id}]

\* mutant of removeFood: the guard on readOnly is missing
removeFood_Unguarded(readOnly, e, id) ==
    [e EXCEPT !.foodIntakes = SelectSeq(@, LAMBDA i : i.id # id),
              !.editingFoodId = @ \ {id}]

\* removeFood(id)
removeFood(readOnly, e, id) ==
    IF readOnly THEN e
    ELSE [e EXCEPT !.foodIntakes = SelectSeq(@, LAMBDA i : i.id # id),
                   !.editingFoodId = @ \ {id}]

\* handleAddOrUpdateWater's val2: null for a bowl whose second input is empty,
\* 0 for the other types
WaterVal2(addWaterType, addWaterVal2) ==
    IF addWaterType = "bowl"
    THEN (IF addWaterVal2 = <<>> THEN Null ELSE parseFloat(addWaterVal2))
    ELSE FZero

\* handleAddOrUpdateWater's evaporationVal: the one of the entry edited, else 0
EvaporationVal(e) ==
    IF \E i \in 1..Len(e.waterIntakes) : e.waterIntakes[i].id \in e.editingWaterId
    THEN EvaporationOr0(e.waterIntakes[CHOOSE i \in 1..Len(e.waterIntakes) :
                                          e.waterIntakes[i].id \in e.editingWaterId])
    ELSE FZero

\* handleAddOrUpdateWater
handleAddOrUpdateWater(readOnly, e, addWaterType, addWaterVal1, addWaterVal2, uuid) ==
    IF readOnly THEN e
    ELSE IF isNaN(parseFloat(addWaterVal1)) THEN e
    ELSE IF FLt(parseFloat(addWaterVal1), FZero) THEN e
    ELSE IF isNaN(WaterVal2(addWaterType, addWaterVal2)) THEN e
    ELSE IF WaterVal2(addWaterType, addWaterVal2) # Null
            /\ FLt(WaterVal2(addWaterType, addWaterVal2), FZero) THEN e
    ELSE LET newItemData == [type |-> addWaterType,
                             amount1 |-> parseFloat(addWaterVal1),
                             amount2 |-> WaterVal2(addWaterType, addWaterVal2),
                             evaporation |-> EvaporationVal(e)]
         IN  IF e.editingWaterId # {}
             THEN [e EXCEPT !.waterIntakes =
                               [i \in 1..Len(@) |->
                                   IF @[i].id \in e.editingWaterId
                                   THEN Spread(@[i], newItemData) ELSE @[i]],
                            !.editingWaterId = {}]
             ELSE [e EXCEPT !.waterIntakes =
                               Append(@, Spread([id |-> uuid], newItemData))]

\* handleEditWater(intake)
handleEditWater(readOnly, e, intake) ==
    IF readOnly THEN e ELSE [e EXCEPT !.editingWaterId = {intake.id}]

\* removeWater(id)
removeWater(readOnly, e, id) ==
    IF readOnly THEN e
    ELSE [e EXCEPT !.waterIntakes = SelectSeq(@, LAMBDA i : i.id # id),
                   !.editingWaterId = @ \ {id}]

\* handleSave: what it does to the state of the form
handleSave(readOnly, e) ==
    IF readOnly THEN e
    ELSE [e EXCEPT !.clean = FormSnapshot(e), !.showSaveFeedback = TRUE]

\* handleSave's record
FormRecord(e, existingRecord, date, uuid) ==
    [id |-> IF existingRecord # Undefined THEN existingRecord.id ELSE uuid,
     date |-> date,
     weight |-> OrZero(parseFloat(e.weight)),
     foodIntakes |-> e.foodIntakes,
     waterIntakes |-> e.waterIntakes,
     urineSize |-> e.urineSize,
     urineCount |-> 1,
     stoolStatus |-> e.stoolStatus,
     notes |-> e.notes]

\* handleSave: the calls of onSave it adds to those made, a call being known
\* by the id and the date of its record
handleSaveCalls(readOnly, e, existingRecord, date, uuid) ==
    IF readOnly THEN {}
    ELSE {[op |-> "onSave", id |-> FormRecord(e, existingRecord, date, uuid).id,
           date |-> FormRecord(e, existingRecord, date, uuid).date]}

\* handleDelete: the calls of onDelete it adds to those made
handleDeleteCalls(readOnly, existingRecord) ==
    IF readOnly \/ existingRecord = Undefined THEN {}
    ELSE {[op |-> "onDelete", id |-> existingRecord.id]}

\* isToday and isReadOnly of App
isToday == selectedDate = Today
isReadOnly == ~isToday /\ ~forceEditMode

\* the record the history holds, of a day before today
NavRecords ==
    <<[id |-> 1, date |-> DateStr(2024, 1, 1), weight |-> FZero,
       foodIntakes |-> <<[id |-> 1, foodId |-> "f3", amount |-> Dec(30, 0)]>>,
       waterIntakes |-> <<[id |-> 1, type |-> "bowl", amount1 |-> Dec(200, 0),
                           amount2 |-> Dec(50, 0)]>>,
       urineSize |-> Str("oneFist"), urineCount |-> 1, stoolStatus |-> "none",
       notes |-> <<>>]>>

\* settings.defaultEvaporation
NavEvaporation == Dec(5, 0)

\* the values typed into the inputs of the form
FoodAmountInputs == {<<>>, <<"2", ".", "5">>}
WaterVal1Inputs == {<<"5", "0">>, <<"-", "5">>}
WaterVal2Inputs == {<<>>}

NavVars == {"foods", "records", "entry", "calls", "selectedDate", "forceEditMode",
            "currentView", "lastEvent"}

\* the handlers of DailyEntry that return at once when readOnly
DailyEntryHandlers ==
    {"toggleNote", "handleAddOrUpdateFood", "handleEditFood", "removeFood",
     "handleAddOrUpdateWater", "handleEditWater", "removeWater", "handleSave",
     "handleDelete"}

isMounted == entry # NoValue

\* uuidv4(): an id not in use, the least one
FreshUuid(used) == CHOOSE u \in Uuids \ used : \A v \in Uuids \ used : u <= v

FoodIntakeIds == {entry.foodIntakes[i].id : i \in 1..Len(entry.foodIntakes)}
WaterIntakeIds == {entry.waterIntakes[i].id : i \in 1..Len(entry.waterIntakes)}

\* DailyEntry is mounted or its date changes: the load effect runs
MountedAt(date, uFood, uWater) ==
    LoadDay(getRecordForDate(records, date), foods, NavEvaporation, uFood, uWater, FALSE)

\* the days the history lists
HistoryDates == {records[i].date : i \in 1..Len(records)}

NavInit ==
    /\ foods = DiaryFoods
    /\ records = NavRecords
    /\ entry = NoValue
    /\ calls = {}
    /\ selectedDate = Today
    /\ forceEditMode = FALSE
    /\ currentView = "history"
    /\ lastEvent = "loadData"
    /\ IdleExcept(NavVars)

\* HistoryView's onSelectDate on a day of the history
NavigateToDateFromHistory(date, uFood, uWater) ==
    /\ currentView = "history"
    /\ selectedDate' = date
    /\ forceEditMode' = TRUE
    /\ currentView' = "record"
    /\ entry' = MountedAt(date, uFood, uWater)
    /\ lastEvent' = "navigateToDateFromHistory"
    /\ UNCHANGED <<foods, records, calls>>
    /\ FrameExcept(NavVars)

\* DailyEntry's onDateChange
ChangeDateInDiary(newDate, uFood, uWater) ==
    /\ currentView = "record"
    /\ selectedDate' = newDate
    /\ forceEditMode' = FALSE
    /\ entry' = IF newDate = selectedDate THEN entry
                ELSE MountedAt(newDate, uFood, uWater)
    /\ lastEvent' = "changeDateInDiary"
    /\ UNCHANGED <<foods, records, calls, currentView>>
    /\ FrameExcept(NavVars)

\* a click on the diary button of the navigation
HandleDiaryClick(uFood, uWater) ==
    /\ currentView' = "record"
    /\ entry' = IF currentView = "record" THEN entry
                ELSE MountedAt(selectedDate, uFood, uWater)
    /\ lastEvent' = "handleDiaryClick"
    /\ UNCHANGED <<foods, records, calls, selectedDate, forceEditMode>>
    /\ FrameExcept(NavVars)

\* a double click on it
HandleDiaryDoubleClick(uFood, uWater) ==
    /\ selectedDate' = Today
    /\ forceEditMode' = TRUE
    /\ currentView' = "record"
    /\ entry' = IF currentView = "record" /\ selectedDate = Today THEN entry
                ELSE MountedAt(Today, uFood, uWater)
    /\ lastEvent' = "handleDiaryDoubleClick"
    /\ UNCHANGED <<foods, records, calls>>
    /\ FrameExcept(NavVars)

\* the history and the settings buttons: setCurrentView, DailyEntry is unmounted
SetCurrentView(view) ==
    /\ currentView' = view
    /\ entry' = NoValue
    /\ lastEvent' = "setCurrentView"
    /\ UNCHANGED <<foods, records, calls, selectedDate, forceEditMode>>
    /\ FrameExcept(NavVars)

\* what a handler of the mounted DailyEntry leaves alone
HandlerFrame ==
    /\ UNCHANGED <<foods, records, selectedDate, forceEditMode, currentView>>
    /\ FrameExcept(NavVars)

ToggleNote(note) ==
    /\ isMounted
    /\ entry' = toggleNote(isReadOnly, entry, note)
    /\ lastEvent' = "toggleNote"
    /\ UNCHANGED calls
    /\ HandlerFrame

AddOrUpdateFood(selectedFoodId, foodAmount) ==
    /\ isMounted
    /\ entry.editingFoodId # {} \/ Len(entry.foodIntakes) < MaxFormItems
    /\ entry' = handleAddOrUpdateFood(isReadOnly, entry, selectedFoodId, foodAmount,
                                      FreshUuid(FoodIntakeIds))
    /\ lastEvent' = "handleAddOrUpdateFood"
    /\ UNCHANGED calls
    /\ HandlerFrame

\* the edit button of a row is disabled while a row is edited
EditFood(i) ==
    /\ isMounted
    /\ i \in 1..Len(entry.foodIntakes)
    /\ isReadOnly \/ entry.editingFoodId = {}
    /\ entry' = handleEditFood(isReadOnly, entry, entry.foodIntakes[i])
    /\ lastEvent' = "handleEditFood"
    /\ UNCHANGED calls
    /\ HandlerFrame

RemoveFoodAt(i) ==
    /\ isMounted
    /\ i \in 1..Len(entry.foodIntakes)
    /\ entry' = removeFood(isReadOnly, entry, entry.foodIntakes[i].id)
    /\ lastEvent' = "removeFood"
    /\ UNCHANGED calls
    /\ HandlerFrame

AddOrUpdateWater(addWaterType, addWaterVal1, addWaterVal2) ==
    /\ isMounted
    /\ entry.editingWaterId # {} \/ Len(entry.waterIntakes) < MaxFormItems
    /\ entry' = handleAddOrUpdateWater(isReadOnly, entry, addWaterType, addWaterVal1,
                                       addWaterVal2, FreshUuid(WaterIntakeIds))
    /\ lastEvent' = "handleAddOrUpdateWater"
    /\ UNCHANGED calls
    /\ HandlerFrame

EditWater(i) ==
    /\ isMounted
    /\ i \in 1..Len(entry.waterIntakes)
    /\ isReadOnly \/ entry.editingWaterId = {}
    /\ entry' = handleEditWater(isReadOnly, entry, entry.waterIntakes[i])
    /\ lastEvent' = "handleEditWater"
    /\ UNCHANGED calls
    /\ HandlerFrame

RemoveWaterAt(i) ==
    /\ isMounted
    /\ i \in 1..Len(entry.waterIntakes)
    /\ entry' = removeWater(isReadOnly, entry, entry.waterIntakes[i].id)
    /\ lastEvent' = "removeWater"
    /\ UNCHANGED calls
    /\ HandlerFrame

\* handleSave: onSave is called, the form is marked clean and the feedback
\* shown; the save button is there for a dirty form that shows no feedback
Save ==
    /\ isMounted
    /\ isReadOnly \/ (formIsDirty(entry) /\ ~entry.showSaveFeedback)
    /\ entry' = handleSave(isReadOnly, entry)
    /\ calls' = calls \cup handleSaveCalls(isReadOnly, entry,
                                           getRecordForDate(records, selectedDate),
                                           selectedDate,
                                           FreshUuid({records[i].id : i \in 1..Len(records)}))
    /\ lastEvent' = "handleSave"
    /\ HandlerFrame

\* handleDelete up to its await; the delete button is there for a record
Delete ==
    /\ isMounted
    /\ isReadOnly \/ getRecordForDate(records, selectedDate) # Undefined
    /\ calls' = calls \cup handleDeleteCalls(isReadOnly,
                                             getRecordForDate(records, selectedDate))
    /\ lastEvent' = "handleDelete"
    /\ UNCHANGED entry
    /\ HandlerFrame

\* the timer of handleSave: setShowSaveFeedback(false)
SaveFeedbackTimeout ==
    /\ isMounted
    /\ entry.showSaveFeedback
    /\ entry' = [entry EXCEPT !.showSaveFeedback = FALSE]
    /\ lastEvent' = "setTimeout"
    /\ UNCHANGED calls
    /\ HandlerFrame

NavNext ==
    \/ \E date \in HistoryDates : NavigateToDateFromHistory(date, 1, 1)
    \/ \E newDate \in DiaryDates : ChangeDateInDiary(newDate, 1, 1)
    \/ HandleDiaryClick(1, 1)
    \/ HandleDiaryDoubleClick(1, 1)
    \/ \E view \in {"history", "foods"} : SetCurrentView(view)
    \/ \E note \in {ChangeLitter} : ToggleNote(note)
    \/ \E amount \in FoodAmountInputs : AddOrUpdateFood("f7", amount)
    \/ \E i \in 1..MaxFormItems : EditFood(i)
    \/ \E i \in 1..MaxFormItems : RemoveFoodAt(i)
    \/ \E type \in {"bowl"}, v1 \in WaterVal1Inputs, v2 \in WaterVal2Inputs :
          AddOrUpdateWater(type, v1, v2)
    \/ \E i \in 1..MaxFormItems : EditWater(i)
    \/ \E i \in 1..MaxFormItems : RemoveWaterAt(i)
    \/ Save
    \/ Delete
    \/ SaveFeedbackTimeout

SpecReadOnly == NavInit /\ [][NavNext]_vars

\* C21: the diary is read-only exactly when the selected date is not today and
\* editing was not forced; entering it from the history or by a double click
\* on the diary button forces editing, changing the date within the diary
\* clears it; while the diary is read-only no handler of DailyEntry (adding,
\* editing or removing a food or a water entry, toggling a note, saving,
\* deleting) changes the form or calls onSave or onDelete, while otherwise
\* removing an entry does change the form
C21_ReadOnlyDiary ==
    [][/\ lastEvent' \in {"navigateToDateFromHistory", "handleDiaryDoubleClick"}
          => forceEditMode' /\ ~isReadOnly'
       /\ lastEvent' = "changeDateInDiary"
          => ~forceEditMode' /\ (isReadOnly' <=> selectedDate' # Today)
       /\ lastEvent' \in DailyEntryHandlers /\ isReadOnly
          => UNCHANGED <<entry, calls>>
       /\ lastEvent' \in {"removeFood", "removeWater"} /\ ~isReadOnly
          => entry' # entry]_vars

\* C21, its case: save was clicked in a read-only diary that shows a record
C21_Witness ==
    /\ isMounted
    /\ isReadOnly
    /\ lastEvent = "handleSave"
    /\ entry.foodIntakes # <<>>
    /\ getRecordForDate(records, selectedDate) # Undefined

(***************************************************************************)
(* The urine slider of DailyEntry: a range input from 0 to 4 in steps of   *)
(* 0.5 whose onChange stores getUrineLabelFromValue(parseFloat(value)) as  *)
(* urineSize (here `label`); the slider shows getUrineSliderValue of it    *)
(* and the history charts getUrineValue of it.                             *)
(***************************************************************************)
\* Number.isInteger(x)
NumberIsInteger(x) == x.m = <<>> \/ x.e >= 0

\* the integer part of |x|
TruncatedNat(x) ==
    IF x.m = <<>> THEN 0
    ELSE IF x.e >= 0 THEN BigToNat(BigShiftL(x.m, x.e))
    ELSE BigToNat(BigShiftR(x.m, -x.e))

\* Math.floor(x) and Math.ceil(x)
MathFloor(x) ==
    IF x.s = 0 THEN TruncatedNat(x)
    ELSE IF NumberIsInteger(x) THEN -TruncatedNat(x) ELSE -(TruncatedNat(x) + 1)
MathCeil(x) == IF NumberIsInteger(x) THEN MathFloor(x) ELSE MathFloor(x) + 1

\* ${URINE_ANCHORS[i]}: the text "undefined" off the array
AnchorText(i) ==
    IF i \in 0..(Len(URINE_ANCHORS) - 1) THEN URINE_ANCHORS[i + 1] ELSE Str("undefined")

\* mutant: the label of a value between two anchors starts with the upper one
getUrineLabelFromValue_UpperFirst(val) ==
    IF NumberIsInteger(val)
    THEN (IF MathFloor(val) \in 0..(Len(URINE_ANCHORS) - 1)
          THEN URINE_ANCHORS[MathFloor(val) + 1] ELSE <<>>)
    ELSE AnchorText(MathCeil(val)) \o <<Tilde>> \o AnchorText(MathFloor(val))

\* DailyEntry.getUrineLabelFromValue
getUrineLabelFromValue(val) ==
    IF NumberIsInteger(val)
    THEN (IF MathFloor(val) \in 0..(Len(URINE_ANCHORS) - 1)
          THEN URINE_ANCHORS[MathFloor(val) + 1] ELSE <<>>)
    ELSE AnchorText(MathFloor(val)) \o <<Tilde>> \o AnchorText(MathCeil(val))

\* the values of the range input: min 0, max 4, step 0.5
SliderTexts ==
    {<<"0">>, <<"0", ".", "5">>, <<"1">>, <<"1", ".", "5">>, <<"2">>, <<"2", ".", "5">>,
     <<"3">>, <<"3", ".", "5">>, <<"4">>}

\* the slider scale
SliderScale == {parseFloat(t) : t \in SliderTexts}

SliderVars == {"label", "urineVal", "sliderVal", "lastEvent"}

\* DailyEntry shows a record whose urineSize is any label
SliderInit ==
    /\ label \in Labels
    /\ urineVal = NoValue
    /\ sliderVal = NoValue
    /\ lastEvent = "load"
    /\ IdleExcept(SliderVars)

\* the onChange of the range input; the values shown are computed anew
SetUrineSize(value) ==
    /\ label' = getUrineLabelFromValue(parseFloat(value))
    /\ urineVal' = NoValue
    /\ sliderVal' = NoValue
    /\ lastEvent' = "setUrineSize"
    /\ FrameExcept(SliderVars)

\* HistoryView: const urineVal = getUrineValue(r.urineSize)
ChartUrineValue ==
    /\ urineVal = NoValue
    /\ urineVal' = getUrineValue(label)
    /\ UNCHANGED <<label, sliderVal, lastEvent>>
    /\ FrameExcept(SliderVars)

\* DailyEntry: const currentSliderValue = getUrineSliderValue(urineSize)
ShowSliderValue ==
    /\ sliderVal = NoValue
    /\ sliderVal' = getUrineSliderValue(label)
    /\ UNCHANGED <<label, urineVal, lastEvent>>
    /\ FrameExcept(SliderVars)

SliderNext ==
    \/ \E value \in SliderTexts : SetUrineSize(value)
    \/ ChartUrineValue
    \/ ShowSliderValue

SpecSlider == SliderInit /\ [][SliderNext]_vars

\* C26: the slider encoding round-trips, getUrineSliderValue(
\* getUrineLabelFromValue(v)) = v for every slider value v of 0, 0.5, ..., 4:
\* the value shown for a label the slider has set is the value it was set to;
\* and getUrineValue gives the same number as getUrineSliderValue for every label
C26_SliderRoundTrip ==
    /\ \A v \in SliderScale : getUrineSliderValue(getUrineLabelFromValue(v)) = v
    /\ \A v \in SliderScale :
          (sliderVal # NoValue /\ label = getUrineLabelFromValue(v)) => sliderVal = v
    /\ (urineVal # NoValue /\ sliderVal # NoValue) => urineVal = sliderVal

\* C26, its case: the slider was moved to 3.5 and both values were computed
C26_Witness ==
    /\ lastEvent = "setUrineSize"
    /\ label = <<"oneFist", Tilde, "huge">>
    /\ sliderVal = Dec(35, 1)
    /\ urineVal = Dec(35, 1)

\* C27: for every label the value of getUrineValue and of getUrineSliderValue
\* lies on the slider scale 0, 0.5, ..., 4
C27_OnSliderScale ==
    /\ urineVal # NoValue => urineVal \in SliderScale
    /\ sliderVal # NoValue => sliderVal \in SliderScale

(***************************************************************************)
(* The water subtotals of the views.  A row of HistoryView sums bowlWater  *)
(* and directWater of its record, the water card of DailyEntry sums        *)
(* bowlGroupTotal and directGroupTotal of the form; calculateDailyStats    *)
(* sums drinkWater.  A sum may be NaN here: a number minus undefined.      *)
(***************************************************************************)
\* a + b, a - b and Math.max(0, a) of numbers that may be NaN
NAdd(a, b) == IF isNaN(a) \/ isNaN(b) THEN NaN ELSE FAdd(a, b)
NSub(a, b) == IF isNaN(a) \/ isNaN(b) THEN NaN ELSE FSub(a, b)
NMax0(a) == IF isNaN(a) THEN NaN ELSE FMax0(a)

\* w.amount2 as a number: undefined, the field being missing, is NaN
Amount2Number(w) == IF "amount2" \in DOMAIN w THEN w.amount2 ELSE NaN

\* w.amount2 !== null
Amount2NotNull(w) == "amount2" \notin DOMAIN w \/ w.amount2 # Null

\* Math.max(0, amount1 - amount2 - (evaporation || 0)) as the views compute it
ViewConsumed(w) ==
    NMax0(NSub(NSub(w.amount1, Amount2Number(w)), EvaporationOr0(w)))

\* HistoryView: the body of record.waterIntakes.forEach in a row
HistoryWaterStep(acc, w) ==
    IF w.type = "bowl" /\ Amount2NotNull(w)
    THEN [acc EXCEPT !.bowlWater = NAdd(@, ViewConsumed(w))]
    ELSE IF w.type = "direct" THEN [acc EXCEPT !.directWater = NAdd(@, w.amount1)]
    ELSE IF w.type = "evaporation" THEN [acc EXCEPT !.bowlWater = NSub(@, w.amount1)]
    ELSE acc

RECURSIVE HistoryWaterForEach(_, _)
HistoryWaterForEach(acc, intakes) ==
    IF intakes = <<>> THEN acc
    ELSE HistoryWaterForEach(HistoryWaterStep(acc, Head(intakes)), Tail(intakes))

\* let bowlWater = 0; let directWater = 0; if (record.waterIntakes) forEach
HistoryWater(rec) ==
    IF "waterIntakes" \in DOMAIN rec
    THEN HistoryWaterForEach([bowlWater |-> FZero, directWater |-> FZero], rec.waterIntakes)
    ELSE [bowlWater |-> FZero, directWater |-> FZero]

\* Array.prototype.reverse
reverse(arr) == [i \in 1..Len(arr) |-> arr[Len(arr) + 1 - i]]

\* DailyEntry.bowlGroupIntakes and directGroupIntakes
bowlGroupIntakes(waterIntakes) ==
    reverse(SelectSeq(waterIntakes, LAMBDA i : i.type = "bowl"))
    \o SelectSeq(waterIntakes, LAMBDA i : i.type = "evaporation")
directGroupIntakes(waterIntakes) ==
    reverse(SelectSeq(waterIntakes, LAMBDA i : i.type = "direct"))

\* the body of bowlGroupIntakes.forEach
BowlGroupStep(total, i) ==
    IF i.type = "bowl" /\ Amount2NotNull(i) THEN NAdd(total, ViewConsumed(i))
    ELSE IF i.type = "evaporation" THEN NSub(total, i.amount1)
    ELSE total

RECURSIVE BowlGroupForEach(_, _)
BowlGroupForEach(total, intakes) ==
    IF intakes = <<>> THEN total
    ELSE BowlGroupForEach(BowlGroupStep(total, Head(intakes)), Tail(intakes))

RECURSIVE DirectGroupForEach(_, _)
DirectGroupForEach(total, intakes) ==
    IF intakes = <<>> THEN total
    ELSE DirectGroupForEach(NAdd(total, Head(intakes).amount1), Tail(intakes))

\* Number.EPSILON
EPSILON == [s |-> 0, m |-> <<1>>, e |-> 1 - Prec]

\* the integer nearest to |x|, for x >= 0 the larger one of two, for x < 0 the
\* smaller one: Math.round rounds a half towards plus infinity
RoundedNat(x) ==
    IF x.m = <<>> THEN 0
    ELSE IF x.e >= 0 THEN BigToNat(BigShiftL(x.m, x.e))
    ELSE IF x.s = 0
         THEN BigToNat(BigShiftR(BigAdd(BigMulSmall(x.m, 2), BigShiftL(<<1>>, -x.e)),
                                 1 - x.e))
    ELSE IF BigCmp(BigMulSmall(x.m, 2), BigShiftL(<<1>>, -x.e)) <= 0 THEN 0
    ELSE LET a == BigSub(BigMulSmall(x.m, 2), BigShiftL(<<1>>, -x.e))
             q == BigShiftR(a, 1 - x.e)
         IN  IF BigShiftL(q, 1 - x.e) = a THEN BigToNat(q) ELSE BigToNat(q) + 1

\* Math.round(x)
MathRound(x) == IF x.s = 0 THEN FOfInt(RoundedNat(x)) ELSE FOfInt(-RoundedNat(x))

\* roundToOne: Math.round((num + Number.EPSILON) * 10) / 10
roundToOne(num) ==
    IF isNaN(num) THEN NaN
    ELSE Bind(FMul(FAdd(num, EPSILON), FOfInt(10)), LAMBDA x : FDivInt(MathRound(x), 10))

\* the totals of the water card before they are rounded, and as shown
DiaryWater(waterIntakes) ==
    Bind(BowlGroupForEach(FZero, bowlGroupIntakes(waterIntakes)), LAMBDA b :
    Bind(DirectGroupForEach(FZero, directGroupIntakes(waterIntakes)), LAMBDA d :
        [bowlTotal |-> b, directTotal |-> d,
         bowlGroupTotal |-> roundToOne(b), directGroupTotal |-> roundToOne(d)]))

\* the water entries of the records: those of the statistics and three direct
\* entries of 0.1, 0.2 and 0.3 ml
BreakdownWaterChoices ==
    WaterIntakeChoices
    \cup {[type |-> "direct", amount1 |-> Dec(n, 1), amount2 |-> FZero] : n \in 1..3}

BreakdownRecords ==
    {[foodIntakes |-> <<>>, waterIntakes |-> wi] :
        wi \in SeqsUpTo(BreakdownWaterChoices, MaxIntakes)}

WaterVars == {"foods", "record", "stats", "historyWater", "diaryWater"}

WaterInit ==
    /\ foods = INITIAL_FOODS
    /\ record \in BreakdownRecords
    /\ stats = NoStats
    /\ historyWater = NoValue
    /\ diaryWater = NoValue
    /\ IdleExcept(WaterVars)

\* const stats = calculateDailyStats(record, foods)
AggregateWater ==
    /\ stats = NoStats
    /\ stats' = calculateDailyStats(record, foods)
    /\ UNCHANGED <<foods, record, historyWater, diaryWater>>
    /\ FrameExcept(WaterVars)

\* HistoryView renders the row of the record
RenderHistoryRow ==
    /\ historyWater = NoValue
    /\ historyWater' = HistoryWater(record)
    /\ UNCHANGED <<foods, record, stats, diaryWater>>
    /\ FrameExcept(WaterVars)

\* DailyEntry renders the water card of the record's entries
RenderWaterCard ==
    /\ diaryWater = NoValue
    /\ diaryWater' = DiaryWater(record.waterIntakes)
    /\ UNCHANGED <<foods, record, stats, historyWater>>
    /\ FrameExcept(WaterVars)

WaterNext == AggregateWater \/ RenderHistoryRow \/ RenderWaterCard

SpecWater == WaterInit /\ [][WaterNext]_vars

WaterComputed == stats # NoStats /\ historyWater # NoValue /\ diaryWater # NoValue

\* C28: for every record the bowl subtotal plus the direct subtotal of
\* HistoryView (bowlWater + directWater) and of DailyEntry (the totals of
\* bowlGroupTotal and directGroupTotal before rounding) equal drinkWater of
\* calculateDailyStats, bowls whose leftover is null or missing included
C28_WaterBreakdowns ==
    WaterComputed =>
        /\ NAdd(historyWater.bowlWater, historyWater.directWater) = stats.drinkWater
        /\ NAdd(diaryWater.bowlTotal, diaryWater.directTotal) = stats.drinkWater

(***************************************************************************)
(* DailyEntry's load effect on its own: `record` is the existingRecord     *)
(* prop (Undefined for a date without record), `entry` the form, `stats`   *)
(* the memo calculateDailyStats(tempRecord, foods) of the form.            *)
(***************************************************************************)
\* the records a date is loaded from: with and without an evaporation entry,
\* with an unsettled bowl, and a stored record without the waterIntakes field
LoadRecords ==
    {[id |-> 1, date |-> DateStr(2024, 1, 1), weight |-> Dec(45, 1),
      foodIntakes |-> <<[id |-> 1, foodId |-> "f3", amount |-> Dec(30, 0)]>>,
      waterIntakes |-> wi, urineSize |-> Str("oneFist"), urineCount |-> 1,
      stoolStatus |-> "none", notes |-> <<ChangeLitter>>] :
        wi \in {<<>>,
                <<[id |-> 1, type |-> "direct", amount1 |-> Dec(205, 1), amount2 |-> FZero]>>,
                <<[id |-> 1, type |-> "bowl", amount1 |-> Dec(200, 0), amount2 |-> Null,
                   evaporation |-> FZero]>>,
                <<[id |-> 1, type |-> "evaporation", amount1 |-> Dec(30, 0),
                   amount2 |-> FZero]>>,
                <<[id |-> 1, type |-> "bowl", amount1 |-> Dec(200, 0),
                   amount2 |-> Dec(50, 0), evaporation |-> FZero],
                  [id |-> 2, type |-> "evaporation", amount1 |-> Dec(1, 1),
                   amount2 |-> FZero]>>}}
    \cup {[id |-> 1, date |-> DateStr(2024, 1, 1), weight |-> FZero,
           foodIntakes |-> <<[id |-> 1, foodId |-> "f7", amount |-> Dec(25, 1)]>>,
           urineSize |-> Str("halfFist"), urineCount |-> 1,
           stoolStatus |-> "normal", notes |-> <<>>]}

\* the catalog with its default food, and one without a default
LoadCatalogs ==
    {DiaryFoods, SelectSeq(DiaryFoods, LAMBDA f : f.id = "f7")}

\* settings.defaultEvaporation
LoadEvaporations == {FZero, Dec(5, 0)}

LoadVars == {"foods", "record", "settings", "entry", "stats", "lastEvent"}

\* the stats memo's tempRecord
TempRecord(e) ==
    [id |-> "temp", weight |-> OrZero(parseFloat(e.weight)),
     foodIntakes |-> e.foodIntakes, waterIntakes |-> e.waterIntakes,
     urineSize |-> e.urineSize, urineCount |-> 1, stoolStatus |-> e.stoolStatus,
     notes |-> e.notes]

\* DailyEntry is rendered for a date, before its effects have run
LoadInit ==
    /\ foods \in LoadCatalogs
    /\ record \in LoadRecords \cup {Undefined}
    /\ settings \in {[defaultSettings EXCEPT !.defaultEvaporation = ev] :
                        ev \in LoadEvaporations}
    /\ entry = NoValue
    /\ stats = NoStats
    /\ lastEvent = "render"
    /\ IdleExcept(LoadVars)

\* the load effect runs: on mount, and when existingRecord or date has changed
RunLoadEffect(uFood, uWater) ==
    /\ entry' = LoadDay(record, foods, settings.defaultEvaporation, uFood, uWater, FALSE)
    /\ stats' = NoStats
    /\ lastEvent' = "load"
    /\ UNCHANGED <<foods, record, settings>>
    /\ FrameExcept(LoadVars)

\* the stats memo of the form
ComputeFormStats ==
    /\ entry # NoValue
    /\ stats = NoStats
    /\ stats' = calculateDailyStats(TempRecord(entry), foods)
    /\ UNCHANGED <<foods, record, settings, entry, lastEvent>>
    /\ FrameExcept(LoadVars)

\* the user edits the loaded form: a note is toggled, a water entry removed
EditLoadedNote(note) ==
    /\ entry # NoValue
    /\ entry' = toggleNote(FALSE, entry, note)
    /\ stats' = NoStats
    /\ lastEvent' = "toggleNote"
    /\ UNCHANGED <<foods, record, settings>>
    /\ FrameExcept(LoadVars)

RemoveLoadedWater(i) ==
    /\ entry # NoValue
    /\ i \in 1..Len(entry.waterIntakes)
    /\ entry' = removeWater(FALSE, entry, entry.waterIntakes[i].id)
    /\ stats' = NoStats
    /\ lastEvent' = "removeWater"
    /\ UNCHANGED <<foods, record, settings>>
    /\ FrameExcept(LoadVars)

LoadNext ==
    \/ \E u \in Uuids : RunLoadEffect(u, MaxUuids + 1)
    \/ ComputeFormStats
    \/ \E note \in {ChangeLitter} : EditLoadedNote(note)
    \/ \E i \in 1..MaxIntakes : RemoveLoadedWater(i)

SpecLoad == LoadInit /\ [][LoadNext]_vars

\* the last entry of the loaded form is the evaporation entry the effect added
AddedEvaporation(amount) ==
    /\ entry.waterIntakes # <<>>
    /\ entry.waterIntakes[Len(entry.waterIntakes)].type = "evaporation"
    /\ entry.waterIntakes[Len(entry.waterIntakes)].amount1 = amount
    /\ SubSeq(entry.waterIntakes, 1, Len(entry.waterIntakes) - 1) = StoredWater(record)

\* C29: whenever DailyEntry has loaded a date, with or without a record, the
\* form is clean and its waterIntakes hold an evaporation entry: one of
\* defaultEvaporation is added for a new day, one of 0 for a record that has
\* none, and the entries of a record that has one are kept; the totals of
\* calculateDailyStats of the loaded form are those of the record
C29_LoadedForm ==
    lastEvent = "load" =>
        /\ ~formIsDirty(entry)
        /\ hasEvaporation(entry.waterIntakes)
        /\ record = Undefined => AddedEvaporation(settings.defaultEvaporation)
        /\ (record # Undefined /\ ~hasEvaporation(StoredWater(record)))
              => AddedEvaporation(FZero)
        /\ (record # Undefined /\ hasEvaporation(StoredWater(record)))
              => entry.waterIntakes = record.waterIntakes
        /\ (record # Undefined /\ stats # NoStats)
              => stats = calculateDailyStats(record, foods)

\* C29, its case: a record without evaporation entry was loaded where the
\* default evaporation is 5 ml, and the totals of the form were computed
C29_Witness ==
    /\ lastEvent = "load"
    /\ record # Undefined
    /\ "waterIntakes" \in DOMAIN record
    /\ record.waterIntakes # <<>>
    /\ ~hasEvaporation(record.waterIntakes)
    /\ settings.defaultEvaporation = Dec(5, 0)
    /\ stats # NoStats

(***************************************************************************)
(* The records of App against the remote collection, and the save of the   *)
(* diary against the outcome of its remote write (SpecApp).                *)
(***************************************************************************)
LocalRecordIds == {records[i].id : i \in 1..Len(records)}
RemoteRecordIds == {d.id : d \in db.records}

\* no call is in flight and the first load is over
Quiescent == calls = {} /\ ~isLoading

\* C24: a failed remote write leaves the local records as they are, the list
\* being updated only after saveRecordToRemote or deleteRecordFromRemote has
\* succeeded; so once the saves and deletes are over the local list holds
\* exactly the records, by id, of the remote collection
C24_LocalMatchesRemote ==
    Quiescent => LocalRecordIds = RemoteRecordIds

\* C25: the form is marked clean and the 'saved' feedback shown after
\* handleSave only when the record has been persisted: when the remote write
\* of the save of the date shown fails, the form is dirty and shows no feedback
C25_CleanOnlyWhenPersisted ==
    [][\A c \in calls :
          (SaveRecordFail(c) /\ entry # NoEntry /\ c.record.date = entry.date)
             => (entry'.dirty /\ ~entry'.showSaveFeedback)]_vars

(***************************************************************************)
(* SpecFoods: the food catalog under handleSaveFood and handleDeleteFood,  *)
(* local list against the remote foods collection; each remote write may   *)
(* succeed or throw.                                                       *)
(***************************************************************************)
\* f.isDefault, undefined where the food has no such field
IsDefault(f) == "isDefault" \in DOMAIN f /\ f.isDefault

\* f.order ?? 0
OrderOrZero(f) == IF "order" \in DOMAIN f THEN f.order ELSE 0

\* foods.find(f => f.isDefault && f.id !== newFood.id)
RECURSIVE findOtherDefault(_, _)
findOtherDefault(fs, id) ==
    IF fs = <<>> THEN Undefined
    ELSE IF IsDefault(Head(fs)) /\ Head(fs).id # id THEN Head(fs)
    ELSE findOtherDefault(Tail(fs), id)

\* { ...existingDefault, isDefault: false }
UnsetDefault(existingDefault) ==
    [f \in DOMAIN existingDefault \cup {"isDefault"} |->
        IF f = "isDefault" THEN FALSE ELSE existingDefault[f]]

\* FoodManager.handleSave on the form of a new food: id from uuidv4(), order undefined
AddedFood(uuid, isDefaultInput, defaultAmountInput) ==
    LET base == [id |-> uuid, name |-> "new food", type |-> "snack",
                 caloriesPerGram |-> Dec(1, 0), waterContentPercent |-> Dec(50, 0),
                 isDefault |-> isDefaultInput]
    IN  IF isDefaultInput /\ defaultAmountInput # <<>>
        THEN [f \in DOMAIN base \cup {"defaultAmount"} |->
                 IF f = "defaultAmount" THEN parseFloat(defaultAmountInput) ELSE base[f]]
        ELSE base

\* nextFoods.reduce((min, f) => Math.min(min, f.order ?? 0), 0)
RECURSIVE minOrder(_)
minOrder(fs) ==
    IF fs = <<>> THEN 0
    ELSE LET rest == minOrder(Tail(fs))
         IN  IF OrderOrZero(Head(fs)) < rest THEN OrderOrZero(Head(fs)) ELSE rest

\* { ...newFood, order: newFood.order ?? (minOrder - 1) }
WithOrder(newFood, order) ==
    [f \in DOMAIN newFood \cup {"order"} |->
        IF f = "order" /\ "order" \notin DOMAIN newFood THEN order ELSE newFood[f]]

\* sort((a, b) => (a.order ?? 0) - (b.order ?? 0)): stable
RECURSIVE InsertByOrder(_, _)
InsertByOrder(sorted, f) ==
    IF sorted = <<>> THEN <<f>>
    ELSE IF OrderOrZero(f) < OrderOrZero(Head(sorted)) THEN <<f>> \o sorted
    ELSE <<Head(sorted)>> \o InsertByOrder(Tail(sorted), f)

RECURSIVE sortByOrder(_)
sortByOrder(fs) ==
    IF fs = <<>> THEN <<>>
    ELSE InsertByOrder(sortByOrder(SubSeq(fs, 1, Len(fs) - 1)), fs[Len(fs)])

\* handleSaveFood's setFoods(prev => ...); updatedPreviousDefault is Null
\* when no other default was found
SetFoodsAfterSave(prev, newFood, updatedPreviousDefault) ==
    LET unset == IF updatedPreviousDefault # Null
                 THEN [i \in 1..Len(prev) |->
                          IF prev[i].id = updatedPreviousDefault.id
                          THEN updatedPreviousDefault ELSE prev[i]]
                 ELSE prev
        exists == \E i \in 1..Len(unset) : unset[i].id = newFood.id
        nextFoods == IF exists
                     THEN [i \in 1..Len(unset) |->
                              IF unset[i].id = newFood.id THEN newFood ELSE unset[i]]
                     ELSE Append(unset, WithOrder(newFood, minOrder(unset) - 1))
    IN  sortByOrder(nextFoods)

\* the id uuidv4() gives the one food added
AddedFoodId == "f8"

\* FoodManager.handleSave and handleSaveFood up to its first await
HandleSaveFood(newFood) ==
    /\ calls = {}
    /\ LET existingDefault == IF newFood.isDefault
                              THEN findOtherDefault(foods, newFood.id) ELSE Undefined
       IN  calls' = IF existingDefault # Undefined
                    THEN {[op |-> "saveFood", pc |-> "unsetDefault", newFood |-> newFood,
                           updatedPreviousDefault |-> UnsetDefault(existingDefault)]}
                    ELSE {[op |-> "saveFood", pc |-> "saveNew", newFood |-> newFood,
                           updatedPreviousDefault |-> Null]}
    /\ UNCHANGED <<foods, records, db, alerts, record, stats>>
    /\ FrameExcept(CatalogVars)

\* saveFoodToRemote(updatedPreviousDefault) succeeds
UnsetDefaultOk(c) ==
    /\ c.op = "saveFood" /\ c.pc = "unsetDefault"
    /\ db' = [db EXCEPT !.foods =
                 setDoc(@, c.updatedPreviousDefault.id, c.updatedPreviousDefault)]
    /\ calls' = Replace(c, [c EXCEPT !.pc = "saveNew"])
    /\ UNCHANGED <<foods, records, alerts, record, stats>>
    /\ FrameExcept(CatalogVars)

\* saveFoodToRemote(newFood, foods) succeeds
SaveNewOk(c) ==
    /\ c.op = "saveFood" /\ c.pc = "saveNew"
    /\ db' = [db EXCEPT !.foods = setDoc(@, c.newFood.id, c.newFood)]
    /\ calls' = Replace(c, [c EXCEPT !.pc = "setFoods"])
    /\ UNCHANGED <<foods, records, alerts, record, stats>>
    /\ FrameExcept(CatalogVars)

\* either saveFoodToRemote throws: handleSaveFood rejects before setFoods
\* and FoodManager.handleSave's catch alerts
SaveFoodFail(c) ==
    /\ c.op = "saveFood" /\ c.pc \in {"unsetDefault", "saveNew"}
    /\ alerts < MaxAlerts
    /\ alerts' = alerts + 1
    /\ calls' = calls \ {c}
    /\ UNCHANGED <<foods, records, db, record, stats>>
    /\ FrameExcept(CatalogVars)

\* handleSaveFood after its awaits: setFoods
SetSavedFood(c) ==
    /\ c.op = "saveFood" /\ c.pc = "setFoods"
    /\ foods' = SetFoodsAfterSave(foods, c.newFood, c.updatedPreviousDefault)
    /\ calls' = calls \ {c}
    /\ UNCHANGED <<records, db, alerts, record, stats>>
    /\ FrameExcept(CatalogVars)

FoodsNext ==
    \/ \E i \in 1..Len(foods) : \E b \in BOOLEAN : \E a \in DefaultAmountInputs : HandleSaveFood(NewFood(foods[i], b, a))
    \/ \E b \in BOOLEAN : \E a \in DefaultAmountInputs : AddedFoodId \notin {f.id : f \in Range(foods)} /\ HandleSaveFood(AddedFood(AddedFoodId, b, a))
    \/ \E c \in calls : UnsetDefaultOk(c)
    \/ \E c \in calls : SaveNewOk(c)
    \/ \E c \in calls : SaveFoodFail(c)
    \/ \E c \in calls : SetSavedFood(c)
    \/ \E f \in Range(foods) : ExecuteDelete(f.id)
    \/ \E c \in calls : DeleteFoodOk(c)
    \/ \E c \in calls : DeleteFoodFail(c)
    \/ \E c \in calls : SetDeletedFood(c)

SpecFoods == CatalogInit /\ [][FoodsNext]_vars

LocalDefaultIds == {f.id : f \in {g \in Range(foods) : IsDefault(g)}}
RemoteDefaultIds == {d.id : d \in {g \in db.foods : IsDefault(g)}}

\* C23: once a handleSaveFood or handleDeleteFood call is over, whether its
\* remote writes succeeded or failed, at most one food of the local list and
\* at most one of the remote collection has isDefault = true, and the two
\* agree on which food it is
C23_OneDefault ==
    calls = {} =>
       /\ Cardinality(LocalDefaultIds) <= 1
       /\ Cardinality(RemoteDefaultIds) <= 1
       /\ LocalDefaultIds = RemoteDefaultIds

(***************************************************************************)
(* SpecBackup: the backup marks.  saveRecordToRemote stamps lastModified,  *)
(* markRecordsAsBackedUp stamps lastBackupTime, pendingBackupRecords       *)
(* compares the two on the local records.  A record is id, date and        *)
(* weight; the weight stands for what the form holds and every save        *)
(* enters one that was never entered before.                               *)
(***************************************************************************)
MaxClock == 3
MaxWeight == 3

BackupVars == {"records", "db", "calls", "clock", "backupStartDate", "backupEndDate", "alerts", "lastBackup"}

\* the app has loaded an empty collection; the range is the first day of the
\* month to today
BackupInit ==
    /\ records = <<>>
    /\ db = [records |-> {}]
    /\ calls = {}
    /\ clock = 1
    /\ backupStartDate = DateStr(2024, 1, 1)
    /\ backupEndDate = Today
    /\ alerts = 0
    /\ lastBackup = << >>
    /\ IdleExcept(BackupVars)

BackupFrame(changed) ==
    /\ \/ "records" \in changed \/ UNCHANGED records
    /\ \/ "db" \in changed \/ UNCHANGED db
    /\ \/ "calls" \in changed \/ UNCHANGED calls
    /\ \/ "clock" \in changed \/ UNCHANGED clock
    /\ \/ "alerts" \in changed \/ UNCHANGED alerts
    /\ \/ "lastBackup" \in changed \/ UNCHANGED lastBackup
    /\ UNCHANGED <<backupStartDate, backupEndDate>>
    /\ FrameExcept(BackupVars)

\* time passes: Date.now() never goes back, and two calls may read the same value
Tick ==
    /\ clock < MaxClock
    /\ clock' = clock + 1
    /\ BackupFrame({"clock"})

BackupUsedIds ==
    {d.id : d \in db.records} \cup {records[i].id : i \in 1..Len(records)}
    \cup {c.record.id : c \in {x \in calls : x.op = "saveRecord"}}

\* the weights entered so far that a record, a document or a backup holds
EnteredWeights ==
    {d.weight : d \in db.records} \cup {records[i].weight : i \in 1..Len(records)}
    \cup {c.record.weight : c \in {x \in calls : x.op = "saveRecord"}}
    \cup {lastBackup[id] : id \in DOMAIN lastBackup}

\* { ...record, lastModified: Date.now() }
WithLastModified(rec, now) ==
    [f \in DOMAIN rec \cup {"lastModified"} |-> IF f = "lastModified" THEN now ELSE rec[f]]

\* DailyEntry.handleSave on date with weight in the form, handleSaveRecord and
\* saveRecordToRemote up to its setDoc: the id is existingRecord's or a new
\* one; the saves are taken one at a time
HandleSaveRecord(date, weight) ==
    /\ \A w \in EnteredWeights : weight > w
    /\ \A c \in calls : c.op # "saveRecord"
    /\ LET existingRecord == getRecordForDate(records, date)
       IN  /\ existingRecord = Undefined => Uuids \ BackupUsedIds # {}
           /\ LET id == IF existingRecord # Undefined THEN existingRecord.id
                        ELSE FreshUuid(BackupUsedIds)
                  updatedRecord == [id |-> id, date |-> date, weight |-> weight]
              IN  calls' = calls \cup
                     {[op |-> "saveRecord", pc |-> "setDoc", record |-> updatedRecord,
                       stored |-> WithLastModified(updatedRecord, clock)]}
    /\ BackupFrame({"calls"})

\* saveRecordToRemote: setDoc succeeds, the document is replaced as a whole
SaveRecordToRemoteOk(c) ==
    /\ c.op = "saveRecord" /\ c.pc = "setDoc"
    /\ db' = [db EXCEPT !.records = setDoc(@, c.record.id, c.stored)]
    /\ calls' = Replace(c, [c EXCEPT !.pc = "setRecords"])
    /\ BackupFrame({"db", "calls"})

\* saveRecordToRemote throws: handleSaveRecord rejects before setRecords
SaveRecordToRemoteFail(c) ==
    /\ c.op = "saveRecord" /\ c.pc = "setDoc"
    /\ calls' = calls \ {c}
    /\ BackupFrame({"calls"})

\* handleSaveRecord after the await: setRecords with the record as the form built it
SetRecordsAfterSave(c) ==
    /\ c.op = "saveRecord" /\ c.pc = "setRecords"
    /\ records' = SaveIntoList(records, c.record)
    /\ calls' = calls \ {c}
    /\ BackupFrame({"records", "calls"})

\* a backup request is under way, its refresh included
BackupUnderWay == \E c \in calls : c.op = "upload"

\* the upload button, disabled when nothing is pending: handleCloudUpload up
\* to its fetch; filtered is every record of the range, pending or not
StartCloudUpload ==
    /\ ~BackupUnderWay
    /\ pendingBackupRecords # <<>>
    /\ LET filtered == sortByDate(InRange(records, backupStartDate, backupEndDate))
       IN  calls' = calls \cup {[op |-> "upload", pc |-> "fetch", filtered |-> filtered]}
    /\ BackupFrame({"calls"})

\* the webhook answers result: 'success': markRecordsAsBackedUp is called and
\* reads Date.now()
WebhookSuccess(c) ==
    /\ c.op = "upload" /\ c.pc = "fetch"
    /\ calls' = Replace(c, [op |-> "upload", pc |-> "commit", filtered |-> c.filtered,
                            now |-> clock])
    /\ BackupFrame({"calls"})

\* the request fails or the webhook answers an error: the catch alerts
WebhookFail(c) ==
    /\ c.op = "upload" /\ c.pc = "fetch"
    /\ alerts < MaxAlerts
    /\ alerts' = alerts + 1
    /\ calls' = calls \ {c}
    /\ BackupFrame({"calls", "alerts"})

\* batch.update(ref, { lastBackupTime: now })
WithLastBackupTime(d, now) ==
    [f \in DOMAIN d \cup {"lastBackupTime"} |-> IF f = "lastBackupTime" THEN now ELSE d[f]]

FilteredIds(c) == {c.filtered[i].id : i \in 1..Len(c.filtered)}

\* the weight of the record id in the payload
PayloadWeight(c, id) ==
    c.filtered[CHOOSE i \in 1..Len(c.filtered) : c.filtered[i].id = id].weight

\* markRecordsAsBackedUp: the batch commits (every id has its document), and
\* the refresh is put on the timer
MarkRecordsAsBackedUpOk(c) ==
    /\ c.op = "upload" /\ c.pc = "commit"
    /\ FilteredIds(c) \subseteq {d.id : d \in db.records}
    /\ db' = [db EXCEPT !.records =
                 {IF d.id \in FilteredIds(c) THEN WithLastBackupTime(d, c.now) ELSE d : d \in @}]
    /\ lastBackup' = [id \in DOMAIN lastBackup \cup FilteredIds(c) |->
                         IF id \in FilteredIds(c) THEN PayloadWeight(c, id) ELSE lastBackup[id]]
    /\ calls' = Replace(c, [op |-> "upload", pc |-> "timeout"])
    /\ BackupFrame({"db", "lastBackup", "calls"})

\* markRecordsAsBackedUp throws: the catch alerts, nothing is marked
MarkRecordsAsBackedUpFail(c) ==
    /\ c.op = "upload" /\ c.pc = "commit"
    /\ alerts < MaxAlerts
    /\ alerts' = alerts + 1
    /\ calls' = calls \ {c}
    /\ BackupFrame({"calls", "alerts"})

\* the timer fires, onRefresh: fetchRecords reads the collection
RefreshFetchOk(c) ==
    /\ c.op = "upload" /\ c.pc = "timeout"
    /\ calls' = Replace(c, [op |-> "upload", pc |-> "setRecords", data |-> getDocs(db.records)])
    /\ BackupFrame({"calls"})

\* getDocs fails: fetchRecords returns []
RefreshFetchFail(c) ==
    /\ c.op = "upload" /\ c.pc = "timeout"
    /\ calls' = Replace(c, [op |-> "upload", pc |-> "setRecords", data |-> <<>>])
    /\ BackupFrame({"calls"})

\* refreshRecords: setRecords(data)
RefreshSetRecords(c) ==
    /\ c.op = "upload" /\ c.pc = "setRecords"
    /\ records' = c.data
    /\ calls' = calls \ {c}
    /\ BackupFrame({"records", "calls"})

BackupNext ==
    \/ Tick
    \/ \E date \in DiaryDates : \E weight \in 1..MaxWeight : HandleSaveRecord(date, weight)
    \/ \E c \in calls : SaveRecordToRemoteOk(c)
    \/ \E c \in calls : SaveRecordToRemoteFail(c)
    \/ \E c \in calls : SetRecordsAfterSave(c)
    \/ StartCloudUpload
    \/ \E c \in calls : WebhookSuccess(c)
    \/ \E c \in calls : WebhookFail(c)
    \/ \E c \in calls : MarkRecordsAsBackedUpOk(c)
    \/ \E c \in calls : MarkRecordsAsBackedUpFail(c)
    \/ \E c \in calls : RefreshFetchOk(c)
    \/ \E c \in calls : RefreshFetchFail(c)
    \/ \E c \in calls : RefreshSetRecords(c)

SpecBackup == BackupInit /\ [][BackupNext]_vars

PendingIds == {pendingBackupRecords[i].id : i \in 1..Len(pendingBackupRecords)}

\* the record was never part of a completed backup, or the weight it holds
\* was saved after the one its last backup sent
SavedSinceBackup(r) == r.id \notin DOMAIN lastBackup \/ r.weight # lastBackup[r.id]

\* C22: once the saves and uploads are over, a record of the selected range
\* is reported as pending backup exactly when it was never backed up or has
\* been saved since its last successful backup
C22_PendingExact ==
    calls = {} =>
       \A i \in 1..Len(records) :
          LET r == records[i]
          IN  InRange(<<r>>, backupStartDate, backupEndDate) # <<>>
                 => (r.id \in PendingIds <=> SavedSinceBackup(r))

====
